---- MODULE Spec2Model ----
(***************************************************************************)
(* A model of the Aetheria proof-of-stake node: the ledger State, the      *)
(* Transaction and Block types, the Blockchain (chain + mempool), and the  *)
(* callers of the Blockchain (producer, dispatcher, API handlers).         *)
(*                                                                         *)
(* Idealisations: SHA-256 is collision free (the digest is rendered as the *)
(* preimage wrapped in "h(..)", so two digests are equal exactly when the  *)
(* preimages the code builds are equal); Ed25519 is unforgeable (a         *)
(* signature is rendered as "sig(key,message)").  uint64 arithmetic is     *)
(* modelled at a reduced width of UintBits bits, wrapping as Go's does.    *)
(*                                                                         *)
(* Blockchain.mu: AddTransaction, CreateBlock and AddBlock are mutually    *)
(* exclusive critical sections, and AddBlock is a sequence of steps that   *)
(* code taking no lock can interleave with.  The actions describe what the *)
(* critical sections compute: the read of the latest block that AddBlock   *)
(* and CreateBlock make through GetLatestBlock while they hold the lock is *)
(* taken here as granted to the holder.  SpecLock alone follows the lock   *)
(* as sync.RWMutex implements it, where that read waits for the holder.    *)
(*                                                                         *)
(* Specifications: Spec, SpecObs, SpecOverflow (ledger and its callers),   *)
(* SpecStake, SpecGenesis (staking validator node, on several chains),     *)
(* SpecSelect, SpecValidate (consensus engine on its own), SpecNet         *)
(* (dispatcher, producer and broadcasts), SpecPeer (peer channels),        *)
(* SpecGossip (blocks of peers and of the producer), SpecInbox (the        *)
(* inbound queue), SpecLock (goroutines and Blockchain.mu), SpecRegistry   *)
(* (broadcasts and Node.mu as sync.RWMutex implements it).                 *)
(***************************************************************************)
EXTENDS Integers, Sequences, FiniteSets, TLC

\* ------------------------------------------------------------ constants

\* blockchain.go: BlockReward
BlockReward == 50
\* main.go: InitialSupply, MinStake, BlockTime (seconds)
InitialSupply == 1000000
MinStake == 1000
BlockTime == 5

\* Width of the unsigned integers of the model (uint64 in the source).
UintBits == 30
Modulus == 2 ^ UintBits
MaxUint == Modulus - 1

\* ------------------------------------------------------------ bounds

\* Longest chain explored (genesis included).
MaxHeight == 3
\* Longest mempool explored.
MaxPending == 2
\* Latest wall-clock second explored.
MaxTime == 15

\* ------------------------------------------------------------ addresses, keys

GenesisAddress == "alice"
Addresses == {"alice", "bob", "vera", "pete"}

\* keys.go: a key pair; the public key of the wallet that owns an address.
PublicKeyOf(a) == "pk_" \o a
PrivateKeyOf(a) == "sk_" \o a
WellFormedPublicKeys == {PublicKeyOf(a) : a \in Addresses}

\* ed25519: PrivateKey.Public()
Public(sk) == PublicKeyOf(CHOOSE a \in Addresses : PrivateKeyOf(a) = sk)

\* keys.go: PublicKeyFromHex fails on anything that is not a 32-byte hex string.
PublicKeyFromHexOk(hexKey) == hexKey \in WellFormedPublicKeys

\* keys.go: PublicKeyToAddress
PublicKeyToAddress(pk) == CHOOSE a \in Addresses : PublicKeyOf(a) = pk

\* keys.go: HashString (hex of SHA-256)
HashString(data) == "h(" \o data \o ")"

\* signature.go: Sign, then SignatureToHex
Sign(sk, data) == "sig(" \o sk \o "," \o data \o ")"

\* signature.go: SignatureFromHex fails on anything that is not 64 hex bytes.
MalformedSignature == "zz"
SignatureFromHexOk(hexSig) == hexSig # MalformedSignature

\* signature.go: Verify
Verify(pk, data, sig) ==
    \E a \in Addresses : PublicKeyOf(a) = pk /\ sig = Sign(PrivateKeyOf(a), data)

\* ------------------------------------------------------------ integers

\* uint64 addition and subtraction (wrapping)
UAdd(a, b) == (a + b) % Modulus
USub(a, b) == (a - b + Modulus) % Modulus

\* fmt.Sprintf("%d", n)
Digit == <<"0", "1", "2", "3", "4", "5", "6", "7", "8", "9">>
RECURSIVE Decimal(_)
Decimal(n) ==
    IF n < 10 THEN Digit[n + 1] ELSE Decimal(n \div 10) \o Digit[(n % 10) + 1]

\* ------------------------------------------------------------ transactions

\* transaction.go: calculateID
calculateID(tx) ==
    HashString(tx.From \o tx.To \o Decimal(tx.Amount) \o Decimal(tx.Fee)
               \o Decimal(tx.Timestamp))

\* transaction.go: dataToSign
dataToSign(tx) ==
    tx.ID \o tx.From \o tx.To \o Decimal(tx.Amount) \o Decimal(tx.Fee)
          \o Decimal(tx.Timestamp)

\* transaction.go: IsCoinbase
IsCoinbase(tx) == tx.From = ""

\* transaction.go: NewTransaction (timestamp passed in for time.Now().Unix())
NewTransaction(from, to, amount, fee, ts) ==
    LET tx == [ID |-> "", From |-> from, To |-> to, Amount |-> amount, Fee |-> fee,
               Timestamp |-> ts, Signature |-> "", PublicKey |-> ""]
    IN  [tx EXCEPT !.ID = calculateID(tx)]

\* transaction.go: Transaction.Sign
SignTx(tx, sk) ==
    LET withKey == [tx EXCEPT !.PublicKey = Public(sk)]
    IN  [withKey EXCEPT !.Signature = Sign(sk, dataToSign(withKey))]

\* Verify letting a coinbase through, as the verification of a block's body does.
TxVerify_CoinbaseExempt(tx) ==
    IF IsCoinbase(tx) THEN "ok"
    ELSE IF tx.Signature = "" THEN "not signed"
    ELSE IF ~PublicKeyFromHexOk(tx.PublicKey) THEN "invalid public key"
    ELSE IF tx.From # PublicKeyToAddress(tx.PublicKey)
         THEN "from address does not match public key"
    ELSE IF ~SignatureFromHexOk(tx.Signature) THEN "invalid signature encoding"
    ELSE IF ~Verify(tx.PublicKey, dataToSign(tx), tx.Signature) THEN "invalid signature"
    ELSE "ok"

\* transaction.go: Transaction.Verify; "ok" or the error
TxVerify(tx) ==
    IF tx.Signature = "" THEN "not signed"
    ELSE IF ~PublicKeyFromHexOk(tx.PublicKey) THEN "invalid public key"
    ELSE IF tx.From # PublicKeyToAddress(tx.PublicKey)
         THEN "from address does not match public key"
    ELSE IF ~SignatureFromHexOk(tx.Signature) THEN "invalid signature encoding"
    ELSE IF ~Verify(tx.PublicKey, dataToSign(tx), tx.Signature) THEN "invalid signature"
    ELSE "ok"

\* ------------------------------------------------------------ blocks

RECURSIVE ConcatIDs(_)
ConcatIDs(txs) == IF txs = << >> THEN "" ELSE Head(txs).ID \o ConcatIDs(Tail(txs))

\* block.go: calculateHash
calculateHash(b) ==
    HashString(Decimal(b.Index) \o Decimal(b.Timestamp) \o b.PrevHash \o b.Validator
               \o ConcatIDs(b.Transactions))

\* block.go: NewBlock (timestamp passed in for time.Now().Unix())
NewBlock(index, transactions, prevHash, validator, ts) ==
    LET b == [Index |-> index, Timestamp |-> ts, Transactions |-> transactions,
              PrevHash |-> prevHash, Hash |-> "", Validator |-> validator,
              Signature |-> ""]
    IN  [b EXCEPT !.Hash = calculateHash(b)]

\* block.go: Block.Sign
SignBlock(b, sk) == [b EXCEPT !.Signature = Sign(sk, b.Hash)]

\* block.go: TotalFees (a uint64 sum)
RECURSIVE TotalFees(_)
TotalFees(txs) ==
    IF txs = << >> THEN 0
    ELSE UAdd(IF IsCoinbase(Head(txs)) THEN 0 ELSE Head(txs).Fee, TotalFees(Tail(txs)))

\* The first non-coinbase transaction of txs that fails Verify, or "ok".
RECURSIVE VerifyTransactions(_)
VerifyTransactions(txs) ==
    IF txs = << >> THEN "ok"
    ELSE IF ~IsCoinbase(Head(txs)) /\ TxVerify(Head(txs)) # "ok"
         THEN "invalid transaction"
    ELSE VerifyTransactions(Tail(txs))

\* block.go: Block.Verify
BlockVerify(b, publicKey) ==
    IF b.Hash # calculateHash(b) THEN "invalid block hash"
    ELSE IF b.Signature = "" THEN "block not signed"
    ELSE IF ~SignatureFromHexOk(b.Signature) THEN "invalid signature encoding"
    ELSE IF ~Verify(publicKey, b.Hash, b.Signature) THEN "invalid block signature"
    ELSE VerifyTransactions(b.Transactions)

\* ------------------------------------------------------------ State

\* state.go: NewState (absent keys of a Go map read as zero)
NewState == [Balances |-> [a \in Addresses |-> 0], Stakes |-> [a \in Addresses |-> 0]]

\* state.go: GetBalance, GetStake
GetBalance(st, a) == st.Balances[a]
GetStake(st, a) == st.Stakes[a]

\* state.go: SetBalance, AddBalance
SetBalance(st, a, n) == [st EXCEPT !.Balances[a] = n]
AddBalance(st, a, n) == [st EXCEPT !.Balances[a] = UAdd(@, n)]

\* AddStake without the comparison of the balance with the amount.
StateAddStake_Unchecked(st, a, n) ==
    [err |-> "ok",
     st |-> [st EXCEPT !.Balances[a] = USub(@, n), !.Stakes[a] = UAdd(@, n)]]

\* AddStake that debits the balance and never credits the stake.
StateAddStake_DebitOnly(st, a, n) ==
    IF st.Balances[a] < n
    THEN [err |-> "insufficient balance to stake", st |-> st]
    ELSE [err |-> "ok", st |-> [st EXCEPT !.Balances[a] = USub(@, n)]]

\* state.go: AddStake; [err, st]
StateAddStake(st, a, n) ==
    IF st.Balances[a] < n
    THEN [err |-> "insufficient balance to stake", st |-> st]
    ELSE [err |-> "ok",
          st |-> [st EXCEPT !.Balances[a] = USub(@, n), !.Stakes[a] = UAdd(@, n)]]

\* state.go: RemoveStake; [err, st]
StateRemoveStake(st, a, n) ==
    IF st.Stakes[a] < n
    THEN [err |-> "insufficient stake", st |-> st]
    ELSE [err |-> "ok",
          st |-> [st EXCEPT !.Stakes[a] = USub(@, n), !.Balances[a] = UAdd(@, n)]]

\* state.go: the sum ApplyTransaction compares the sender's balance with
TotalRequired(tx) == UAdd(tx.Amount, tx.Fee)

\* state.go: ApplyTransaction; [err, st]
ApplyTransaction(st, tx) ==
    IF IsCoinbase(tx)
    THEN [err |-> "ok", st |-> [st EXCEPT !.Balances[tx.To] = UAdd(@, tx.Amount)]]
    ELSE IF st.Balances[tx.From] < TotalRequired(tx)
    THEN [err |-> "insufficient balance", st |-> st]
    ELSE LET debited == [st EXCEPT !.Balances[tx.From] = USub(@, TotalRequired(tx))]
         IN  [err |-> "ok",
              st |-> [debited EXCEPT !.Balances[tx.To] = UAdd(@, tx.Amount)]]

\* state.go: the loop of ApplyBlock; stops at the first transaction that fails
RECURSIVE ApplyTransactions(_, _)
ApplyTransactions(st, txs) ==
    IF txs = << >> THEN [err |-> "ok", st |-> st]
    ELSE LET r == ApplyTransaction(st, Head(txs))
         IN  IF r.err # "ok" THEN [err |-> "failed to apply transaction", st |-> r.st]
             ELSE ApplyTransactions(r.st, Tail(txs))

\* ApplyBlock without the credit of the fees to the validator.
ApplyBlock_NoFees(st, b) == ApplyTransactions(st, b.Transactions)

\* state.go: ApplyBlock; [err, st], st being the receiver as the call leaves it
ApplyBlock(st, b) ==
    LET r == ApplyTransactions(st, b.Transactions)
        fees == TotalFees(b.Transactions)
    IN  IF r.err # "ok" THEN r
        ELSE IF fees > 0 THEN [err |-> "ok", st |-> AddBalance(r.st, b.Validator, fees)]
        ELSE r

\* state.go: Clone
Clone(st) ==
    [Balances |-> [a \in Addresses |-> st.Balances[a]],
     Stakes |-> [a \in Addresses |-> st.Stakes[a]]]

\* ------------------------------------------------------------ Blockchain (pure parts)

\* blockchain.go: the coinbase of createGenesisBlock and of CreateBlock
Coinbase(to, amount) ==
    LET tx == [ID |-> "", From |-> "", To |-> to, Amount |-> amount, Fee |-> 0,
               Timestamp |-> 0, Signature |-> "", PublicKey |-> ""]
    IN  [tx EXCEPT !.ID = calculateID(tx)]

\* createGenesisBlock leaving the signature of the block empty.
createGenesisBlock_Unsigned(address, initialSupply) ==
    LET g == [Index |-> 0, Timestamp |-> 0,
              Transactions |-> <<Coinbase(address, initialSupply)>>,
              PrevHash |-> "0", Hash |-> "", Validator |-> "genesis",
              Signature |-> ""]
    IN  [g EXCEPT !.Hash = calculateHash(g)]

\* blockchain.go: createGenesisBlock
createGenesisBlock(address, initialSupply) ==
    LET g == [Index |-> 0, Timestamp |-> 0,
              Transactions |-> <<Coinbase(address, initialSupply)>>,
              PrevHash |-> "0", Hash |-> "", Validator |-> "genesis",
              Signature |-> ""]
    IN  [g EXCEPT !.Hash = calculateHash(g), !.Signature = "genesis"]

\* validateBlock without the comparison of the previous hash.
validateBlock_NoPrevHash(latest, b) ==
    IF b.Index # latest.Index + 1 THEN "invalid block index"
    ELSE IF b.Hash # calculateHash(b) THEN "invalid block hash"
    ELSE VerifyTransactions(b.Transactions)

\* validateBlock without the comparison of the index.
validateBlock_NoIndex(latest, b) ==
    IF b.PrevHash # latest.Hash THEN "invalid previous hash"
    ELSE IF b.Hash # calculateHash(b) THEN "invalid block hash"
    ELSE VerifyTransactions(b.Transactions)

\* blockchain.go: validateBlock against the latest block; "ok" or the error
validateBlock(latest, b) ==
    IF b.Index # latest.Index + 1 THEN "invalid block index"
    ELSE IF b.PrevHash # latest.Hash THEN "invalid previous hash"
    ELSE IF b.Hash # calculateHash(b) THEN "invalid block hash"
    ELSE VerifyTransactions(b.Transactions)

\* blockchain.go: IsValid over a chain
IsValid(chain) ==
    \A i \in 2..Len(chain) :
        /\ chain[i].Hash = calculateHash(chain[i])
        /\ chain[i].PrevHash = chain[i - 1].Hash
        /\ chain[i].Index = chain[i - 1].Index + 1

\* The ids of a sequence of transactions.
IDs(txs) == {txs[i].ID : i \in 1..Len(txs)}

\* blockchain.go: the txPool map with tx stored under its ID
PoolPut(pool, tx) ==
    [id \in DOMAIN pool \cup {tx.ID} |-> IF id = tx.ID THEN tx ELSE pool[id]]

\* A commit that leaves the pool as it is.
PoolDelete_Nothing(pool, txs) == pool

\* blockchain.go: the txPool map after delete(txPool, tx.ID) for each tx of txs
PoolDelete(pool, txs) == [id \in DOMAIN pool \ IDs(txs) |-> pool[id]]

\* ------------------------------------------------------------ consensus (pure parts)

\* validator.go: ValidatorFromKeyPair
ValidatorFromKeyPair(a, stake) ==
    [Address |-> a, PublicKey |-> PublicKeyOf(a), Stake |-> stake]

\* validator.go: CanValidate
CanValidate(v, minStake) == v.Stake >= minStake

\* pos.go: the uint64 sum of the stakes of a list of validators
RECURSIVE SumStake(_)
SumStake(vs) == IF vs = << >> THEN 0 ELSE UAdd(Head(vs).Stake, SumStake(Tail(vs)))

\* pos.go: the cumulative loop of SelectValidator; falls back to the last one
RECURSIVE SelectLoop(_, _, _)
SelectLoop(vs, cumulative, target) ==
    LET c == UAdd(cumulative, Head(vs).Stake)
    IN  IF target < c \/ Len(vs) = 1 THEN Head(vs).Address
        ELSE SelectLoop(Tail(vs), c, target)

\* pos.go: SelectValidator over the validators in the order GetValidators
\* enumerated the map, with seed the integer generateSeed returned; [err, address]
SelectValidator(vs, minStake, seed) ==
    LET eligible == SelectSeq(vs, LAMBDA v : CanValidate(v, minStake))
        totalStake == SumStake(eligible)
    IN  IF Len(vs) = 0 THEN [err |-> "no validators available", address |-> ""]
        ELSE IF Len(eligible) = 0 THEN [err |-> "no eligible validators", address |-> ""]
        ELSE IF totalStake = 0 THEN [err |-> "panic: division by zero", address |-> ""]
        ELSE [err |-> "ok", address |-> SelectLoop(eligible, 0, seed % totalStake)]

\* pos.go: ShouldCreateBlock, time.Now() being nowSec seconds and nowNanos
\* nanoseconds: strictly after lastBlockTime + BlockTime
ShouldCreateBlock(lastBlockTime, nowSec, nowNanos) ==
    \/ nowSec > lastBlockTime + BlockTime
    \/ nowSec = lastBlockTime + BlockTime /\ nowNanos > 0

\* The block absent (a nil *Block).
NoBlock ==
    [Index |-> 0, Timestamp |-> 0, Transactions |-> << >>, PrevHash |-> "",
     Hash |-> "", Validator |-> "", Signature |-> ""]

\* ValidateBlock without the comparison with the previous block's timestamp.
ValidateBlock_NoPrevTimestamp(reg, minStake, b, prev, nowSec) ==
    IF b.Validator \notin DOMAIN reg THEN "validator not found"
    ELSE IF ~CanValidate(reg[b.Validator], minStake)
         THEN "validator does not have minimum stake"
    ELSE IF BlockVerify(b, reg[b.Validator].PublicKey) # "ok"
         THEN "invalid block signature"
    ELSE IF b.Timestamp > nowSec + BlockTime
         THEN "block timestamp too far in the future"
    ELSE "ok"

\* pos.go: ValidateBlock against registry reg (address -> Validator) with minimum
\* stake minStake, time.Now().Unix() being nowSec; "ok" or the error
ValidateBlock(reg, minStake, b, prev, nowSec) ==
    IF b.Validator \notin DOMAIN reg THEN "validator not found"
    ELSE IF ~CanValidate(reg[b.Validator], minStake)
         THEN "validator does not have minimum stake"
    ELSE IF BlockVerify(b, reg[b.Validator].PublicKey) # "ok"
         THEN "invalid block signature"
    ELSE IF b.Timestamp > nowSec + BlockTime
         THEN "block timestamp too far in the future"
    ELSE IF prev # NoBlock /\ b.Timestamp <= prev.Timestamp
         THEN "block timestamp must be after previous block"
    ELSE "ok"

\* pos.go: CalculateReward
CalculateReward(b) == UAdd(BlockReward, TotalFees(b.Transactions))

\* All enumeration orders of a finite set, as sequences.
RECURSIVE Orders(_)
Orders(S) ==
    IF S = {} THEN {<< >>}
    ELSE UNION {{<<x>> \o rest : rest \in Orders(S \ {x})} : x \in S}

\* ------------------------------------------------------------ state of the node

VARIABLES
    blocks,         \* Blockchain.Blocks
    state,          \* Blockchain.State (the live State object)
    pending,        \* Blockchain.PendingTxs
    txPool,         \* Blockchain.txPool: ID -> Transaction
    validators,     \* PoS.ValidatorSet.Validators: address -> Validator
    localValidator, \* Node.Validator.Address, "" while Node.IsValidator is false
    phase,          \* "boot": main before node.Start; "running": after it
    now,            \* time.Now().Unix()
    prod,           \* the producer goroutine inside tryProduceBlock
    ab,             \* the AddBlock call that holds Blockchain.mu exclusively
    ret,            \* the value an operation is returning to its caller right now
    pos,            \* PoS: the configuration of the consensus engine
    call,           \* the last call of a consensus function: arguments and result
    node,           \* Node: Peers, messageChan, stopChan, the dispatcher goroutine
    mu              \* Blockchain.mu: the goroutine inside each acquisition

ledgerVars == <<blocks, state, pending, txPool>>
\* What the ledger operations never touch.
restVars == <<pos, call, node, mu>>
vars == <<blocks, state, pending, txPool, validators, localValidator, phase, now,
          prod, ab, ret, pos, call, node, mu>>

None == [op |-> "none", err |-> ""]
Returns(op, err) == [op |-> op, err |-> err]
Idle == [pc |-> "idle", by |-> "", block |-> NoBlock, temp |-> NewState]

\* No consensus call made yet.
NoCall == [fn |-> "none", args |-> << >>, registry |-> << >>, err |-> "", address |-> ""]

\* node.go: NewNode: no peers, an empty messageChan, stopChan open; the dispatcher
\* goroutine not started. mu is Node.mu, the lock of the peer registry: the number of
\* read holds and the Lock call that is waiting for them, if any; ranging holds the
\* peers the range loop of a running broadcast has still to visit.
NoMessage == [Type |-> "", Data |-> << >>, From |-> "", Timestamp |-> 0]
NewNode ==
    [Peers |-> << >>, messageChan |-> << >>, stopChan |-> "open",
     dispatcher |-> [pc |-> "none", msg |-> NoMessage], producer |-> "none",
     mu |-> [readers |-> 0, writer |-> << >>], ranging |-> {}]

\* sync.RWMutex: nobody holds Blockchain.mu and nobody waits for it.
Unlocked == [writer |-> "", blocked |-> {}]

\* blockchain.go: GetLatestBlock
GetLatestBlock == blocks[Len(blocks)]

\* Blockchain.mu is free: no AddBlock is inside its critical section.
BlockchainUnlocked == ab.pc = "idle"

\* ------------------------------------------------------------ inputs

\* First wall-clock second explored.
StartTime == 10

\* Transactions clients submit (API createTransaction, peers' gossip).
Pay(from, to, amount, fee) ==
    SignTx(NewTransaction(from, to, amount, fee, 7), PrivateKeyOf(from))
SmallTx == Pay("alice", "bob", 100, 1)
\* affordable alone, not together with SmallTx
BigTx == Pay("alice", "bob", 999950, 1)
\* amount + fee exceeds the largest unsigned value
WrapTx == Pay("bob", "alice", MaxUint, 1)
WellSignedTxs == {SmallTx, BigTx}
BadTxs ==
    { [SmallTx EXCEPT !.Signature = ""],
      [SmallTx EXCEPT !.PublicKey = "zz"],
      [SmallTx EXCEPT !.Signature = MalformedSignature],
      \* signed by bob's key, claiming to come from alice
      [SignTx(NewTransaction("alice", "bob", 100, 1, 7), PrivateKeyOf("bob"))
          EXCEPT !.PublicKey = PublicKeyOf("alice")],
      SignTx(NewTransaction("alice", "bob", 100, 1, 7), PrivateKeyOf("bob")),
      \* amount changed after signing
      [SmallTx EXCEPT !.Amount = 600000],
      \* a coinbase carrying somebody's signature
      SignTx(NewTransaction("", "bob", 100, 0, 7), PrivateKeyOf("bob")) }
TxInputs == WellSignedTxs \cup BadTxs

\* Validators other nodes register with this node's consensus engine.
ValidatorInputs == { ValidatorFromKeyPair("pete", 3000) }

\* A block built on the latest block by validator v.
PeerBlock(v, coinbases, body, ts) ==
    SignBlock(NewBlock(GetLatestBlock.Index + 1, coinbases \o body,
                       GetLatestBlock.Hash, v, ts), PrivateKeyOf(v))
HonestBlock(body, ts) == PeerBlock("pete", <<Coinbase("pete", BlockReward)>>, body, ts)
Rehash(b, signer) == SignBlock([b EXCEPT !.Hash = calculateHash(b)], PrivateKeyOf(signer))

\* Blocks peers send to the dispatcher (MsgTypeBlock).
PeerBlockInputs ==
    { HonestBlock(<< >>, now), HonestBlock(<<SmallTx>>, now),
      HonestBlock(<< >>, now + BlockTime),
      \* the second transfer cannot be paid after the first
      HonestBlock(<<SmallTx, BigTx>>, now),
      Rehash([HonestBlock(<< >>, now) EXCEPT !.Index = @ + 1], "pete"),
      [HonestBlock(<< >>, now) EXCEPT !.Signature = ""] }

\* Forged blocks handed to AddBlock directly.
ForgedBlockInputs ==
    { Rehash([HonestBlock(<< >>, now) EXCEPT !.Index = @ + 1], "pete"),
      Rehash([HonestBlock(<< >>, now) EXCEPT !.PrevHash = "deadbeef"], "pete"),
      [HonestBlock(<< >>, now) EXCEPT !.Timestamp = @ + 1],
      HonestBlock(<<[SmallTx EXCEPT !.Signature = ""]>>, now),
      HonestBlock(<<SmallTx, BigTx>>, now) }

\* Seeds generateSeed may return (SHA-256 of the hash and the timestamp).
SeedInputs == {0, 3500}

\* ------------------------------------------------------------ construction

\* main.go: NewBlockchain, NewPoS, NewNode, before the validator setup
Init ==
    /\ blocks = <<createGenesisBlock(GenesisAddress, InitialSupply)>>
    /\ state = ApplyBlock(NewState, createGenesisBlock(GenesisAddress, InitialSupply)).st
    /\ pending = << >>
    /\ txPool = << >>
    /\ validators = << >>
    /\ localValidator = ""
    /\ phase = "boot"
    /\ now = StartTime
    /\ prod = [pc |-> "idle", block |-> NoBlock]
    /\ ab = Idle
    /\ ret = None
    /\ pos = [MinStake |-> MinStake]
    /\ call = NoCall
    /\ node = NewNode
    /\ mu = Unlocked

\* main.go: the initial stake of the validator wallet w
InitialStake(st, w) ==
    IF StateAddStake(st, w, MinStake).err = "ok"
    THEN StateAddStake(st, w, MinStake).st
    ELSE StateAddStake(SetBalance(st, w, MinStake * 2), w, MinStake).st

\* RegisterValidator putting the validator under its address whether or not the
\* address is taken.
Register_Overwrite(reg, v) ==
    IF v.Stake < pos.MinStake THEN [err |-> "stake is below minimum", reg |-> reg]
    ELSE [err |-> "ok",
          reg |-> [a \in DOMAIN reg \cup {v.Address} |->
                      IF a = v.Address THEN v ELSE reg[a]]]

\* pos.go, validator.go: RegisterValidator, AddValidator; [err, reg]
Register(reg, v) ==
    IF v.Stake < pos.MinStake THEN [err |-> "stake is below minimum", reg |-> reg]
    ELSE IF v.Address \in DOMAIN reg THEN [err |-> "validator already exists", reg |-> reg]
    ELSE [err |-> "ok",
          reg |-> [a \in DOMAIN reg \cup {v.Address} |->
                      IF a = v.Address THEN v ELSE reg[a]]]

\* main.go: --validator --wallet w: stake, SetValidator, node.Start
MainValidator(w) ==
    /\ phase = "boot"
    /\ state' = InitialStake(state, w)
    /\ validators' = Register(validators, ValidatorFromKeyPair(w, MinStake)).reg
    /\ localValidator' = w
    /\ phase' = "running"
    /\ UNCHANGED <<blocks, pending, txPool, now, prod, ab, ret>>
    /\ UNCHANGED restVars

\* main.go: no --validator: node.Start
MainPlain ==
    /\ phase = "boot"
    /\ phase' = "running"
    /\ UNCHANGED <<blocks, state, pending, txPool, validators, localValidator, now,
                   prod, ab, ret>>
    /\ UNCHANGED restVars

\* ------------------------------------------------------------ environment

\* The wall clock advances.
Tick ==
    /\ phase = "running"
    /\ ret = None
    /\ now + BlockTime <= MaxTime
    /\ now' = now + BlockTime
    /\ UNCHANGED <<blocks, state, pending, txPool, validators, localValidator, phase,
                   prod, ab, ret>>
    /\ UNCHANGED restVars

\* The caller of the operation that just returned goes on (logs, replies, broadcasts).
ReturnHandled ==
    /\ ret # None
    /\ ret' = None
    /\ prod' = IF prod.pc = "returned" THEN [pc |-> "idle", block |-> NoBlock] ELSE prod
    /\ UNCHANGED <<blocks, state, pending, txPool, validators, localValidator, phase,
                   now, ab>>
    /\ UNCHANGED restVars

\* pos.go: RegisterValidator, called for another node's validator
RegisterValidator(v) ==
    /\ phase = "running"
    /\ ret = None
    /\ validators' = Register(validators, v).reg
    /\ ret' = Returns("RegisterValidator", Register(validators, v).err)
    /\ UNCHANGED <<blocks, state, pending, txPool, localValidator, phase, now, prod, ab>>
    /\ UNCHANGED restVars

\* ------------------------------------------------------------ Blockchain.AddTransaction

\* AddTransaction without the balance check.
AddTransactionCheck_NoBalance(tx) ==
    IF TxVerify(tx) # "ok" THEN "invalid transaction"
    ELSE IF tx.ID \in DOMAIN txPool THEN "transaction already exists"
    ELSE "ok"

\* blockchain.go: the outcome of AddTransaction on the current chain; "ok" or the error
AddTransactionCheck(tx) ==
    IF TxVerify(tx) # "ok" THEN "invalid transaction"
    ELSE IF tx.ID \in DOMAIN txPool THEN "transaction already exists"
    ELSE IF GetBalance(state, tx.From) < TotalRequired(tx) THEN "insufficient balance"
    ELSE "ok"

\* blockchain.go: AddTransaction, called by handleTransaction (node.go) and
\* createTransaction (api)
AddTransaction(tx) ==
    /\ phase = "running"
    /\ ret = None
    /\ BlockchainUnlocked
    /\ Len(pending) < MaxPending
    /\ IF AddTransactionCheck(tx) = "ok"
       THEN /\ txPool' = PoolPut(txPool, tx)
            /\ pending' = Append(pending, tx)
       ELSE UNCHANGED <<txPool, pending>>
    /\ ret' = Returns("AddTransaction", AddTransactionCheck(tx))
    /\ UNCHANGED <<blocks, state, validators, localValidator, phase, now, prod, ab>>
    /\ UNCHANGED restVars

\* ------------------------------------------------------------ State.AddStake (api handleStake)

\* api: handleStake: AddStake on the live State, without Blockchain.mu
HandleStake(a, n) ==
    /\ phase = "running"
    /\ ret = None
    /\ state' = StateAddStake(state, a, n).st
    /\ ret' = Returns("AddStake", StateAddStake(state, a, n).err)
    /\ UNCHANGED <<blocks, pending, txPool, validators, localValidator, phase, now,
                   prod, ab>>
    /\ UNCHANGED restVars

\* ------------------------------------------------------------ Blockchain.AddBlock

\* blockchain.go: AddBlock up to the point where the block has been applied to the
\* clone: "ok" or the error it returns
AddBlockCheck(b) ==
    IF validateBlock(GetLatestBlock, b) # "ok" THEN "invalid block"
    ELSE IF ApplyBlock(Clone(state), b).err # "ok" THEN "failed to apply block"
    ELSE "ok"

\* The producer's position after its AddBlock call has begun / returned.
ProdAfter(by, pc) == IF by = "producer" THEN [prod EXCEPT !.pc = pc] ELSE prod

\* AddBlock applying the block to the live State instead of a clone of it.
AddBlockBegin_InPlace(by, b) ==
    /\ phase = "running"
    /\ ret = None
    /\ BlockchainUnlocked
    /\ Len(blocks) < MaxHeight
    /\ IF AddBlockCheck(b) = "ok"
       THEN /\ ab' = [pc |-> "applied", by |-> by, block |-> b,
                      temp |-> ApplyBlock(state, b).st]
            /\ prod' = ProdAfter(by, "adding")
            /\ ret' = ret
            /\ state' = state
       ELSE /\ ab' = ab
            /\ prod' = ProdAfter(by, "returned")
            /\ ret' = Returns("AddBlock", AddBlockCheck(b))
            /\ state' = IF validateBlock(GetLatestBlock, b) = "ok"
                        THEN ApplyBlock(state, b).st ELSE state
    /\ UNCHANGED <<blocks, pending, txPool, validators, localValidator, phase, now>>
    /\ UNCHANGED restVars

\* blockchain.go: AddBlock: Lock, validateBlock, Clone, ApplyBlock on the clone
AddBlockBegin(by, b) ==
    /\ phase = "running"
    /\ ret = None
    /\ BlockchainUnlocked
    /\ Len(blocks) < MaxHeight
    /\ IF AddBlockCheck(b) = "ok"
       THEN /\ ab' = [pc |-> "applied", by |-> by, block |-> b,
                      temp |-> ApplyBlock(Clone(state), b).st]
            /\ prod' = ProdAfter(by, "adding")
            /\ ret' = ret
       ELSE /\ ab' = ab
            /\ prod' = ProdAfter(by, "returned")
            /\ ret' = Returns("AddBlock", AddBlockCheck(b))
    /\ UNCHANGED <<blocks, state, pending, txPool, validators, localValidator, phase, now>>
    /\ UNCHANGED restVars

\* blockchain.go: bc.Blocks = append(bc.Blocks, block)
AddBlockAppend ==
    /\ ret = None
    /\ ab.pc = "applied"
    /\ blocks' = Append(blocks, ab.block)
    /\ ab' = [ab EXCEPT !.pc = "appended"]
    /\ UNCHANGED <<state, pending, txPool, validators, localValidator, phase, now, prod,
                   ret>>
    /\ UNCHANGED restVars

\* blockchain.go: bc.State = tempState
AddBlockSwap ==
    /\ ret = None
    /\ ab.pc = "appended"
    /\ state' = ab.temp
    /\ ab' = [ab EXCEPT !.pc = "swapped"]
    /\ UNCHANGED <<blocks, pending, txPool, validators, localValidator, phase, now, prod,
                   ret>>
    /\ UNCHANGED restVars

\* blockchain.go: delete(bc.txPool, tx.ID) for every transaction of the block
AddBlockUnpool ==
    /\ ret = None
    /\ ab.pc = "swapped"
    /\ txPool' = PoolDelete(txPool, ab.block.Transactions)
    /\ ab' = [ab EXCEPT !.pc = "unpooled"]
    /\ UNCHANGED <<blocks, state, pending, validators, localValidator, phase, now, prod,
                   ret>>
    /\ UNCHANGED restVars

\* blockchain.go: bc.PendingTxs = make(...), Unlock, return nil
AddBlockClear ==
    /\ ret = None
    /\ ab.pc = "unpooled"
    /\ pending' = << >>
    /\ ab' = Idle
    /\ prod' = ProdAfter(ab.by, "returned")
    /\ ret' = Returns("AddBlock", "ok")
    /\ UNCHANGED <<blocks, state, txPool, validators, localValidator, phase, now>>
    /\ UNCHANGED restVars

\* node.go: handleBlock: GetLatestBlock, ValidateBlock, then AddBlock
HandleBlock(b) ==
    IF ValidateBlock(validators, pos.MinStake, b, GetLatestBlock, now) = "ok"
    THEN AddBlockBegin("dispatcher", b)
    ELSE /\ phase = "running"
         /\ ret = None
         /\ BlockchainUnlocked
         /\ ret' = Returns("ValidateBlock", ValidateBlock(validators, pos.MinStake, b, GetLatestBlock, now))
         /\ UNCHANGED <<blocks, state, pending, txPool, validators, localValidator,
                        phase, now, prod, ab>>
         /\ UNCHANGED restVars

\* A direct call of the exported Blockchain.AddBlock.
HarnessAddBlock(b) == AddBlockBegin("harness", b)

\* ------------------------------------------------------------ producer

\* tryProduceBlock without the call of ShouldCreateBlock.
TryProduceBlock_Untimed(nanos, seed, order) ==
    /\ phase = "running"
    /\ ret = None
    /\ localValidator # ""
    /\ prod.pc = "idle"
    /\ BlockchainUnlocked
    /\ LET sel == SelectValidator([i \in 1..Len(order) |-> validators[order[i]]],
                                  pos.MinStake, seed)
       IN  sel.err = "ok" /\ sel.address = localValidator
    /\ prod' = [pc |-> "selected", block |-> NoBlock]
    /\ UNCHANGED <<blocks, state, pending, txPool, validators, localValidator, phase,
                   now, ab, ret>>
    /\ UNCHANGED restVars

\* node.go: tryProduceBlock up to the decision to produce: GetLatestBlock,
\* ShouldCreateBlock, SelectValidator, the comparison with the local validator
TryProduceBlock(nanos, seed, order) ==
    /\ phase = "running"
    /\ ret = None
    /\ localValidator # ""
    /\ prod.pc = "idle"
    /\ BlockchainUnlocked
    /\ ShouldCreateBlock(GetLatestBlock.Timestamp, now, nanos)
    /\ LET sel == SelectValidator([i \in 1..Len(order) |-> validators[order[i]]],
                                  pos.MinStake, seed)
       IN  sel.err = "ok" /\ sel.address = localValidator
    /\ prod' = [pc |-> "selected", block |-> NoBlock]
    /\ UNCHANGED <<blocks, state, pending, txPool, validators, localValidator, phase,
                   now, ab, ret>>
    /\ UNCHANGED restVars

\* CreateBlock putting the coinbase after the pending transactions.
CreateBlock_CoinbaseLast(validator) ==
    NewBlock(GetLatestBlock.Index + 1,
             pending \o <<Coinbase(validator, BlockReward)>>,
             GetLatestBlock.Hash, validator, now)

\* blockchain.go: CreateBlock (the block it returns)
CreateBlock(validator) ==
    NewBlock(GetLatestBlock.Index + 1,
             <<Coinbase(validator, BlockReward)>> \o pending,
             GetLatestBlock.Hash, validator, now)

\* node.go: tryProduceBlock: CreateBlock for the local validator
ProducerCreateBlock ==
    /\ ret = None
    /\ prod.pc = "selected"
    /\ BlockchainUnlocked
    /\ prod' = [pc |-> "created", block |-> CreateBlock(localValidator)]
    /\ UNCHANGED <<blocks, state, pending, txPool, validators, localValidator, phase,
                   now, ab, ret>>
    /\ UNCHANGED restVars

\* node.go: tryProduceBlock: Block.Sign with the local key
ProducerSign ==
    /\ ret = None
    /\ prod.pc = "created"
    /\ prod' = [pc |-> "signed",
                block |-> SignBlock(prod.block, PrivateKeyOf(localValidator))]
    /\ UNCHANGED <<blocks, state, pending, txPool, validators, localValidator, phase,
                   now, ab, ret>>
    /\ UNCHANGED restVars

\* node.go: tryProduceBlock: AddBlock of the block just signed
ProducerAddBlock ==
    /\ prod.pc = "signed"
    /\ AddBlockBegin("producer", prod.block)

\* ------------------------------------------------------------ queries

\* node.go handleGetBlocks, api getBlocks: read bc.Blocks without Blockchain.mu
HandleGetBlocks ==
    /\ phase = "running"
    /\ ret = None
    /\ ret' = Returns("handleGetBlocks", "ok")
    /\ UNCHANGED <<blocks, state, pending, txPool, validators, localValidator, phase,
                   now, prod, ab>>
    /\ UNCHANGED restVars

\* api handleBalance: State.GetBalance and GetStake without Blockchain.mu
HandleBalance ==
    /\ phase = "running"
    /\ ret = None
    /\ ret' = Returns("handleBalance", "ok")
    /\ UNCHANGED <<blocks, state, pending, txPool, validators, localValidator, phase,
                   now, prod, ab>>
    /\ UNCHANGED restVars

\* api getPendingTransactions: read bc.PendingTxs without Blockchain.mu
GetPendingTransactions ==
    /\ phase = "running"
    /\ ret = None
    /\ ret' = Returns("getPendingTransactions", "ok")
    /\ UNCHANGED <<blocks, state, pending, txPool, validators, localValidator, phase,
                   now, prod, ab>>
    /\ UNCHANGED restVars

\* blockchain.go: Height, under Blockchain.mu.RLock (api handleRoot)
Height ==
    /\ phase = "running"
    /\ ret = None
    /\ BlockchainUnlocked
    /\ ret' = Returns("Height", "ok")
    /\ UNCHANGED <<blocks, state, pending, txPool, validators, localValidator, phase,
                   now, prod, ab>>
    /\ UNCHANGED restVars

\* ------------------------------------------------------------ specifications

\* The ledger: boot, clients' transactions, peers' blocks, forged blocks, the producer.
Next ==
    \/ \E w \in {"alice", "vera"} : MainValidator(w)
    \/ MainPlain
    \/ Tick
    \/ ReturnHandled
    \/ \E v \in ValidatorInputs : RegisterValidator(v)
    \/ \E tx \in TxInputs : AddTransaction(tx)
    \/ \E b \in PeerBlockInputs : HandleBlock(b)
    \/ \E b \in ForgedBlockInputs : HarnessAddBlock(b)
    \/ AddBlockAppend
    \/ AddBlockSwap
    \/ AddBlockUnpool
    \/ AddBlockClear
    \/ \E nanos \in {0, 1}, seed \in SeedInputs, order \in Orders(DOMAIN validators) :
          TryProduceBlock(nanos, seed, order)
    \/ ProducerCreateBlock
    \/ ProducerSign
    \/ ProducerAddBlock

Spec == Init /\ [][Next]_vars

\* A validator node whose API answers queries and stake requests while it produces.
NextObs ==
    \/ \E w \in {"alice"} : MainValidator(w)
    \/ Tick
    \/ ReturnHandled
    \/ \E tx \in {SmallTx} : AddTransaction(tx)
    \/ \E a \in {"alice"}, n \in {500000} : HandleStake(a, n)
    \/ AddBlockAppend
    \/ AddBlockSwap
    \/ AddBlockUnpool
    \/ AddBlockClear
    \/ \E nanos \in {0, 1}, seed \in SeedInputs, order \in Orders(DOMAIN validators) :
          TryProduceBlock(nanos, seed, order)
    \/ ProducerCreateBlock
    \/ ProducerSign
    \/ ProducerAddBlock
    \/ HandleGetBlocks
    \/ HandleBalance
    \/ GetPendingTransactions
    \/ Height

SpecObs == Init /\ [][NextObs]_vars

\* A direct call of the exported State.RemoveStake, without Blockchain.mu
RemoveStake(a, n) ==
    /\ phase = "running"
    /\ ret = None
    /\ state' = StateRemoveStake(state, a, n).st
    /\ ret' = Returns("RemoveStake", StateRemoveStake(state, a, n).err)
    /\ UNCHANGED <<blocks, pending, txPool, validators, localValidator, phase, now,
                   prod, ab>>
    /\ UNCHANGED restVars

\* A validator node whose clients pay, stake and unstake while it produces: two
\* transfers the validator can pay one at a time and not together; stakes of a fixed
\* amount, of everything the account holds, and of one unit too many.
NextStake ==
    \/ \E w \in {"alice"} : MainValidator(w)
    \/ Tick
    \/ ReturnHandled
    \/ \E tx \in {Pay("alice", "bob", 600000, 1), Pay("alice", "bob", 500000, 1)} :
          AddTransaction(tx)
    \/ \E a \in {"alice", "bob"} :
          \E n \in {400000, GetBalance(state, a), GetBalance(state, a) + 1} :
             HandleStake(a, n)
    \/ \E a \in {"alice", "bob"} :
          \E n \in {400000, GetStake(state, a) + 1} : RemoveStake(a, n)
    \/ AddBlockAppend
    \/ AddBlockSwap
    \/ AddBlockUnpool
    \/ AddBlockClear
    \/ \E nanos \in {0, 1}, seed \in SeedInputs, order \in Orders(DOMAIN validators) :
          TryProduceBlock(nanos, seed, order)
    \/ ProducerCreateBlock
    \/ ProducerSign
    \/ ProducerAddBlock

SpecStake == Init /\ [][NextStake]_vars

\* blockchain.go: NewBlockchain(genesisAddress, initialSupply) for the addresses and
\* supplies explored, beside NewPoS and NewNode
InitGenesis ==
    /\ \E a \in {"alice", "bob"}, supply \in {0, InitialSupply} :
          /\ blocks = <<createGenesisBlock(a, supply)>>
          /\ state = ApplyBlock(NewState, createGenesisBlock(a, supply)).st
    /\ pending = << >>
    /\ txPool = << >>
    /\ validators = << >>
    /\ localValidator = ""
    /\ phase = "boot"
    /\ now = StartTime
    /\ prod = [pc |-> "idle", block |-> NoBlock]
    /\ ab = Idle
    /\ ret = None
    /\ pos = [MinStake |-> MinStake]
    /\ call = NoCall
    /\ node = NewNode
    /\ mu = Unlocked

\* The staking node of NextStake on each of these chains.
SpecGenesis == InitGenesis /\ [][NextStake]_vars

\* A validator node whose clients submit amounts at the top of the integer range.
OverflowTxInputs == {SmallTx, WrapTx}

NextOverflow ==
    \/ \E w \in {"alice", "vera"} : MainValidator(w)
    \/ Tick
    \/ ReturnHandled
    \/ \E tx \in OverflowTxInputs : AddTransaction(tx)
    \/ AddBlockAppend
    \/ AddBlockSwap
    \/ AddBlockUnpool
    \/ AddBlockClear
    \/ \E nanos \in {0, 1}, seed \in SeedInputs, order \in Orders(DOMAIN validators) :
          TryProduceBlock(nanos, seed, order)
    \/ ProducerCreateBlock
    \/ ProducerSign
    \/ ProducerAddBlock

SpecOverflow == Init /\ [][NextOverflow]_vars

\* ------------------------------------------------------------ consensus engine on its own

\* pos.go: generateSeed: SHA-256 of the hash and the timestamp read as an integer, a
\* fixed function of its two arguments; the model fixes one.
generateSeed(prevBlockHash, timestamp) ==
    IF prevBlockHash = "abc" THEN 458 + timestamp ELSE 3458 + 509 * timestamp

\* NewPoS(minStake, blockTime): the configurations explored.
MinStakeInputs == {0, MinStake}

\* Validators callers register, and the stakes they set with UpdateValidatorStake.
SelectValidatorInputs ==
    { ValidatorFromKeyPair("alice", 1000), ValidatorFromKeyPair("bob", 3000),
      ValidatorFromKeyPair("alice", 0), ValidatorFromKeyPair("bob", 999) }
StakeInputs == {0, 999}

\* The arguments SelectValidator is called with.
SelectArgInputs == {<<"abc", 42>>, <<"abc", 43>>, <<"def", 42>>}

\* A consensus engine with configuration minStake beside a fresh chain.
InitSelect ==
    /\ blocks = <<createGenesisBlock(GenesisAddress, InitialSupply)>>
    /\ state = ApplyBlock(NewState, createGenesisBlock(GenesisAddress, InitialSupply)).st
    /\ pending = << >>
    /\ txPool = << >>
    /\ validators = << >>
    /\ localValidator = ""
    /\ phase = "running"
    /\ now = StartTime
    /\ prod = [pc |-> "idle", block |-> NoBlock]
    /\ ab = Idle
    /\ ret = None
    /\ pos \in {[MinStake |-> m] : m \in MinStakeInputs}
    /\ call = NoCall
    /\ node = NewNode
    /\ mu = Unlocked

\* pos.go, validator.go: UnregisterValidator, RemoveValidator
UnregisterValidator(a) ==
    /\ ret = None
    /\ IF a \in DOMAIN validators
       THEN /\ validators' = [x \in DOMAIN validators \ {a} |-> validators[x]]
            /\ ret' = Returns("UnregisterValidator", "ok")
       ELSE /\ validators' = validators
            /\ ret' = Returns("UnregisterValidator", "validator not found")
    /\ UNCHANGED <<blocks, state, pending, txPool, localValidator, phase, now, prod, ab>>
    /\ UNCHANGED restVars

\* pos.go, validator.go: UpdateValidatorStake, UpdateStake
UpdateValidatorStake(a, stake) ==
    /\ ret = None
    /\ IF a \in DOMAIN validators
       THEN /\ validators' = [validators EXCEPT ![a].Stake = stake]
            /\ ret' = Returns("UpdateValidatorStake", "ok")
       ELSE /\ validators' = validators
            /\ ret' = Returns("UpdateValidatorStake", "validator not found")
    /\ UNCHANGED <<blocks, state, pending, txPool, localValidator, phase, now, prod, ab>>
    /\ UNCHANGED restVars

\* pos.go: a call SelectValidator(prevBlockHash, timestamp), GetValidators having
\* enumerated the map in the given order
SelectValidatorCall(prevBlockHash, timestamp, order) ==
    /\ ret = None
    /\ LET sel == SelectValidator([i \in 1..Len(order) |-> validators[order[i]]],
                                  pos.MinStake, generateSeed(prevBlockHash, timestamp))
       IN  call' = [fn |-> "SelectValidator", args |-> <<prevBlockHash, timestamp>>,
                    registry |-> validators, err |-> sel.err, address |-> sel.address]
    /\ UNCHANGED <<blocks, state, pending, txPool, validators, localValidator, phase, now,
                   prod, ab, ret, pos, node, mu>>

NextSelect ==
    \/ ReturnHandled
    \/ \E v \in SelectValidatorInputs : RegisterValidator(v)
    \/ \E a \in {"alice", "bob"} : UnregisterValidator(a)
    \/ \E a \in {"alice", "bob"}, stake \in StakeInputs : UpdateValidatorStake(a, stake)
    \/ \E args \in SelectArgInputs, order \in Orders(DOMAIN validators) :
          SelectValidatorCall(args[1], args[2], order)

SpecSelect == InitSelect /\ [][NextSelect]_vars

\* Blocks handed to ValidateBlock: well formed at the limits of the accepted
\* timestamps, and one for each way of failing.
ValidateBlockInputs ==
    { HonestBlock(<< >>, now), HonestBlock(<<SmallTx>>, now + BlockTime),
      HonestBlock(<< >>, now + BlockTime + 1),
      HonestBlock(<< >>, GetLatestBlock.Timestamp),
      PeerBlock("bob", <<Coinbase("bob", BlockReward)>>, << >>, now),
      [HonestBlock(<< >>, now) EXCEPT !.Signature = ""],
      SignBlock(HonestBlock(<< >>, now), PrivateKeyOf("bob")),
      [HonestBlock(<< >>, now) EXCEPT !.Timestamp = @ + 1],
      HonestBlock(<<[SmallTx EXCEPT !.Signature = ""]>>, now) }

\* pos.go: a call ValidateBlock(b, prev); prev is NoBlock for a nil prevBlock
ValidateBlockCall(b, prev) ==
    /\ ret = None
    /\ call' = [fn |-> "ValidateBlock", args |-> <<b, prev>>, registry |-> << >>,
                err |-> ValidateBlock(validators, pos.MinStake, b, prev, now),
                address |-> ""]
    /\ UNCHANGED <<blocks, state, pending, txPool, validators, localValidator, phase, now,
                   prod, ab, ret, pos, node, mu>>

NextValidate ==
    \/ ReturnHandled
    \/ Tick
    \/ \E v \in ValidatorInputs : RegisterValidator(v)
    \/ UnregisterValidator("pete")
    \/ \E stake \in StakeInputs : UpdateValidatorStake("pete", stake)
    \/ \E b \in ValidateBlockInputs, prev \in {NoBlock, GetLatestBlock} :
          ValidateBlockCall(b, prev)

SpecValidate == InitSelect /\ [][NextValidate]_vars

\* ------------------------------------------------------------ node: peers and dispatcher

\* peer.go: make(chan *Message, 100)
PeerChanCap == 100

\* The height up to which the networked node is followed.
NetMaxHeight == 2

\* message.go: a Message; Data holds the value that was marshalled (encoding/json
\* writes and reads back every field of Block and Transaction)
Message(type, data, from) ==
    [Type |-> type, Data |-> data, From |-> from, Timestamp |-> now]

\* peer.go: NewPeer
NewPeer == [Connected |-> FALSE, messageChan |-> << >>]

\* Peer.SendMessage without the default case of its select.
SendMessage_Unbounded(p, msg) ==
    IF ~p.Connected THEN p
    ELSE [p EXCEPT !.messageChan = Append(@, msg)]

\* peer.go: Peer.SendMessage: nothing for a peer that is not connected, a send
\* that gives up when the channel is full otherwise
SendMessage(p, msg) ==
    IF ~p.Connected THEN p
    ELSE IF Len(p.messageChan) < PeerChanCap
         THEN [p EXCEPT !.messageChan = Append(@, msg)]
    ELSE p

\* node.go: sendMessage to the peer registered under peerID, if any
sendMessage(peers, peerID, msg) ==
    IF peerID \in DOMAIN peers
    THEN [peers EXCEPT ![peerID] = SendMessage(@, msg)]
    ELSE peers

\* node.go: BroadcastBlock, BroadcastTransaction: sendMessage for every peer
Broadcast(peers, msg) == [id \in DOMAIN peers |-> SendMessage(peers[id], msg)]

PeerIDs == {"p1", "p2"}

\* node.go: Start: the dispatcher goroutine, and the producer goroutine of a validator
Start ==
    /\ phase = "running"
    /\ node.dispatcher.pc = "none"
    /\ node' = [node EXCEPT !.dispatcher.pc = "idle",
                            !.producer = IF localValidator # "" THEN "running" ELSE "none"]
    /\ UNCHANGED <<blocks, state, pending, txPool, validators, localValidator, phase, now,
                   prod, ab, ret, pos, call, mu>>

\* node.go: AddPeer(NewPeer(id, address))
AddPeer(id) ==
    /\ node' = [node EXCEPT !.Peers = [x \in DOMAIN @ \cup {id} |->
                                          IF x = id THEN NewPeer ELSE @[x]]]
    /\ UNCHANGED <<blocks, state, pending, txPool, validators, localValidator, phase, now,
                   prod, ab, ret, pos, call, mu>>

\* peer.go: Peer.Connect on a registered peer
Connect(id) ==
    /\ id \in DOMAIN node.Peers
    /\ node' = [node EXCEPT !.Peers[id].Connected = TRUE]
    /\ UNCHANGED <<blocks, state, pending, txPool, validators, localValidator, phase, now,
                   prod, ab, ret, pos, call, mu>>

\* node.go: ReceiveMessage(msg) on the empty messageChan, and processMessages
\* receiving msg from it in its select
DispatcherReceive(msg) ==
    /\ node.dispatcher.pc = "idle"
    /\ node.messageChan = << >>
    /\ node' = [node EXCEPT !.dispatcher = [pc |-> "handling", msg |-> msg]]
    /\ UNCHANGED <<blocks, state, pending, txPool, validators, localValidator, phase, now,
                   prod, ab, ret, pos, call, mu>>

\* node.go: handleMessage, MsgTypeBlock: handleBlock up to its call of AddBlock
DispatcherHandleBlock ==
    /\ Len(blocks) < NetMaxHeight
    /\ node.dispatcher.pc = "handling"
    /\ node.dispatcher.msg.Type = "block"
    /\ HandleBlock(node.dispatcher.msg.Data[1])

\* node.go: handleMessage, MsgTypeTransaction: handleTransaction calls AddTransaction
DispatcherHandleTransaction ==
    /\ node.dispatcher.pc = "handling"
    /\ node.dispatcher.msg.Type = "transaction"
    /\ AddTransaction(node.dispatcher.msg.Data[1])

\* The dispatcher broadcasting whatever the call returned.
DispatcherReturn_Always ==
    /\ node.dispatcher.pc = "handling"
    /\ ret.op \in {"ValidateBlock", "AddBlock", "AddTransaction"}
    /\ prod.pc # "returned"
    /\ node' = [node EXCEPT
                  !.Peers = Broadcast(@, Message(node.dispatcher.msg.Type,
                                                 node.dispatcher.msg.Data, "node")),
                  !.dispatcher = [pc |-> "idle", msg |-> NoMessage]]
    /\ ret' = None
    /\ UNCHANGED <<blocks, state, pending, txPool, validators, localValidator, phase, now,
                   prod, ab, pos, call, mu>>

\* node.go: handleBlock, handleTransaction after the call returned: the message is
\* broadcast when it was accepted, and processMessages goes back to its select
DispatcherReturn ==
    /\ node.dispatcher.pc = "handling"
    /\ ret.op \in {"ValidateBlock", "AddBlock", "AddTransaction"}
    /\ prod.pc # "returned"
    /\ node' = [node EXCEPT
                  !.Peers = IF ret.err = "ok"
                            THEN Broadcast(@, Message(node.dispatcher.msg.Type,
                                                      node.dispatcher.msg.Data, "node"))
                            ELSE @,
                  !.dispatcher = [pc |-> "idle", msg |-> NoMessage]]
    /\ ret' = None
    /\ UNCHANGED <<blocks, state, pending, txPool, validators, localValidator, phase, now,
                   prod, ab, pos, call, mu>>

\* node.go: handlePing, handleGetBlocks: the reply to the sender
DispatcherReply ==
    /\ node.dispatcher.pc = "handling"
    /\ node.dispatcher.msg.Type \in {"ping", "get_blocks"}
    /\ node' = [node EXCEPT
                  !.Peers = sendMessage(@, node.dispatcher.msg.From,
                                IF node.dispatcher.msg.Type = "ping"
                                THEN Message("pong", << >>, "node")
                                ELSE Message("blocks", blocks, "node")),
                  !.dispatcher = [pc |-> "idle", msg |-> NoMessage]]
    /\ UNCHANGED <<blocks, state, pending, txPool, validators, localValidator, phase, now,
                   prod, ab, ret, pos, call, mu>>

\* node.go: produceBlocks: a tick of the ticker, tryProduceBlock up to its decision
ProducerTick(nanos, order) ==
    /\ Len(blocks) < NetMaxHeight
    /\ node.producer = "running"
    /\ TryProduceBlock(nanos, generateSeed(GetLatestBlock.Hash, now), order)

\* node.go: tryProduceBlock after AddBlock returned: BroadcastBlock when it succeeded
ProducerReturn ==
    /\ prod.pc = "returned"
    /\ ret.op = "AddBlock"
    /\ node' = [node EXCEPT
                  !.Peers = IF ret.err = "ok"
                            THEN Broadcast(@, Message("block", <<prod.block>>, "node"))
                            ELSE @]
    /\ prod' = [pc |-> "idle", block |-> NoBlock]
    /\ ret' = None
    /\ UNCHANGED <<blocks, state, pending, txPool, validators, localValidator, phase, now,
                   ab, pos, call, mu>>

\* Messages peers send to the node.
MessageInputs ==
    { Message("block", <<HonestBlock(<< >>, now)>>, "p1"),
      Message("block", <<[HonestBlock(<< >>, now) EXCEPT !.Signature = ""]>>, "p1"),
      Message("block", <<Rehash([HonestBlock(<< >>, now) EXCEPT !.Index = @ + 1], "pete")>>, "p1"),
      Message("transaction", <<SmallTx>>, "p2"),
      Message("transaction", <<[SmallTx EXCEPT !.Signature = ""]>>, "p2") }

\* A validator node started with main's validator setup for alice at the second the
\* genesis block carries, to which pete was registered as a second validator, p1 added
\* and connected, and p2 added.
InitNet ==
    /\ blocks = <<createGenesisBlock(GenesisAddress, InitialSupply)>>
    /\ state = InitialStake(ApplyBlock(NewState,
                   createGenesisBlock(GenesisAddress, InitialSupply)).st, "alice")
    /\ pending = << >>
    /\ txPool = << >>
    /\ validators = [a \in {"alice", "pete"} |->
                        IF a = "alice" THEN ValidatorFromKeyPair("alice", MinStake)
                        ELSE ValidatorFromKeyPair("pete", 3000)]
    /\ localValidator = "alice"
    /\ phase = "running"
    /\ now = createGenesisBlock(GenesisAddress, InitialSupply).Timestamp
    /\ prod = [pc |-> "idle", block |-> NoBlock]
    /\ ab = Idle
    /\ ret = None
    /\ pos = [MinStake |-> MinStake]
    /\ call = NoCall
    /\ node = [NewNode EXCEPT
                 !.Peers = [id \in PeerIDs |-> [NewPeer EXCEPT !.Connected = (id = "p1")]],
                 !.dispatcher.pc = "idle",
                 !.producer = "running"]
    /\ mu = Unlocked

NextNet ==
    \/ Tick
    \/ \E msg \in MessageInputs : DispatcherReceive(msg)
    \/ DispatcherHandleBlock
    \/ DispatcherHandleTransaction
    \/ DispatcherReturn
    \/ AddBlockAppend
    \/ AddBlockSwap
    \/ AddBlockUnpool
    \/ AddBlockClear
    \/ \E nanos \in {0, 1}, order \in Orders(DOMAIN validators) : ProducerTick(nanos, order)
    \/ ProducerCreateBlock
    \/ ProducerSign
    \/ ProducerAddBlock
    \/ ProducerReturn

SpecNet == InitNet /\ [][NextNet]_vars

\* ------------------------------------------------------------ node: gossip of blocks

\* node.go: handleMessage, MsgTypeBlock: handleBlock up to its call of AddBlock, at
\* any height of the chain
DispatcherHandleAnyBlock ==
    /\ node.dispatcher.pc = "handling"
    /\ node.dispatcher.msg.Type = "block"
    /\ HandleBlock(node.dispatcher.msg.Data[1])

\* The validator node of InitNet among peers that send it the next block of pete, for
\* this second and for one BlockTime ahead, with a coinbase of the supply and with no
\* coinbase, a next block signed with alice's key on another machine, and the blocks
\* it has in its chain already.
NextGossip ==
    \/ Tick
    \/ \E msg \in { Message("block", <<HonestBlock(<< >>, now)>>, "p1"),
                     Message("block", <<HonestBlock(<< >>, now + BlockTime)>>, "p1"),
                     Message("block", <<PeerBlock("pete", <<Coinbase("pete", InitialSupply)>>,
                                                  << >>, now)>>, "p1"),
                     Message("block", <<PeerBlock("pete", << >>, << >>, now)>>, "p1"),
                     Message("block", <<PeerBlock("alice", <<Coinbase("alice", BlockReward)>>,
                                                  << >>, now)>>, "p1") }
                   \cup { Message("block", <<blocks[i]>>, "p2") : i \in 2..Len(blocks) } :
          DispatcherReceive(msg)
    \/ DispatcherHandleAnyBlock
    \/ DispatcherReturn
    \/ AddBlockAppend
    \/ AddBlockSwap
    \/ AddBlockUnpool
    \/ AddBlockClear
    \/ \E nanos \in {0, 1}, order \in Orders(DOMAIN validators) : ProducerTick(nanos, order)
    \/ ProducerCreateBlock
    \/ ProducerSign
    \/ ProducerAddBlock
    \/ ProducerReturn

SpecGossip == InitNet /\ [][NextGossip]_vars

\* ------------------------------------------------------------ node: the inbound queue

\* node.go: NewNode: make(chan *Message, 100)
MessageChanCap == 100

\* ReceiveMessage without the default case of its select: the queue takes everything.
ReceiveMessage_Unbounded(msg) ==
    /\ node' = [node EXCEPT !.messageChan = Append(@, msg)]
    /\ UNCHANGED <<blocks, state, pending, txPool, validators, localValidator, phase, now,
                   prod, ab, ret, pos, call, mu>>

\* node.go: ReceiveMessage: a send to messageChan that gives up when the channel is
\* full; the caller goes on in both cases
ReceiveMessage(msg) ==
    /\ node' = [node EXCEPT !.messageChan = IF Len(@) < MessageChanCap
                                           THEN Append(@, msg) ELSE @]
    /\ UNCHANGED <<blocks, state, pending, txPool, validators, localValidator, phase, now,
                   prod, ab, ret, pos, call, mu>>

\* node.go: processMessages: the select receives the oldest message of messageChan
\* and calls handleMessage
ProcessMessages ==
    /\ node.dispatcher.pc = "idle"
    /\ node.messageChan # << >>
    /\ node' = [node EXCEPT !.dispatcher = [pc |-> "handling", msg |-> Head(node.messageChan)],
                            !.messageChan = Tail(@)]
    /\ UNCHANGED <<blocks, state, pending, txPool, validators, localValidator, phase, now,
                   prod, ab, ret, pos, call, mu>>

\* A node that is no validator and has no peers yet, to which pings of p1 are delivered
\* at any rate, before and after Start, and now and then a request of p2 for the
\* blocks (one of them queued at a time).
NextInbox ==
    \/ MainPlain
    \/ Start
    \/ ReceiveMessage(Message("ping", << >>, "p1"))
    \/ /\ \A i \in 1..Len(node.messageChan) : node.messageChan[i].Type # "get_blocks"
       /\ ReceiveMessage(Message("get_blocks", << >>, "p2"))
    \/ ProcessMessages
    \/ DispatcherReply

SpecInbox == Init /\ [][NextInbox]_vars

\* ------------------------------------------------------------ node: Node.mu as built

\* sync.RWMutex: RLock is granted unless a Lock call holds the lock or waits for it;
\* the Lock calls of this model wait, write and unlock, so one is never seen holding.
RLockGranted == node.mu.writer = << >>

\* node.go: BroadcastTransaction for the transaction AddTransaction accepted:
\* n.mu.RLock() granted, the range over n.Peers begins
BroadcastRLock ==
    /\ node.dispatcher.pc = "handling"
    /\ ret = Returns("AddTransaction", "ok")
    /\ RLockGranted
    /\ node' = [node EXCEPT !.mu.readers = @ + 1,
                            !.ranging = DOMAIN node.Peers,
                            !.dispatcher.pc = "broadcasting"]
    /\ ret' = None
    /\ UNCHANGED <<blocks, state, pending, txPool, validators, localValidator, phase, now,
                   prod, ab, pos, call, mu>>

\* node.go: sendMessage(peer.ID, msg) inside the range: n.mu.RLock() granted, the
\* lookup, n.mu.RUnlock(), peer.SendMessage
BroadcastSend(id) ==
    /\ node.dispatcher.pc = "broadcasting"
    /\ id \in node.ranging
    /\ RLockGranted
    /\ node' = [node EXCEPT
                  !.Peers = sendMessage(@, id, Message(node.dispatcher.msg.Type,
                                                       node.dispatcher.msg.Data, "node")),
                  !.ranging = @ \ {id}]
    /\ UNCHANGED <<blocks, state, pending, txPool, validators, localValidator, phase, now,
                   prod, ab, ret, pos, call, mu>>

\* node.go: BroadcastTransaction: the range is over, the deferred n.mu.RUnlock()
BroadcastRUnlock ==
    /\ node.dispatcher.pc = "broadcasting"
    /\ node.ranging = {}
    /\ node' = [node EXCEPT !.mu.readers = @ - 1,
                            !.dispatcher = [pc |-> "idle", msg |-> NoMessage]]
    /\ UNCHANGED <<blocks, state, pending, txPool, validators, localValidator, phase, now,
                   prod, ab, ret, pos, call, mu>>

\* node.go: AddPeer, RemovePeer called by another task: n.mu.Lock() is called; from
\* now on RLock calls wait, and Lock waits for the read holds to be released
RegistryLock(op, id) ==
    /\ node.mu.writer = << >>
    /\ node' = [node EXCEPT !.mu.writer = <<op, id>>]
    /\ UNCHANGED <<blocks, state, pending, txPool, validators, localValidator, phase, now,
                   prod, ab, ret, pos, call, mu>>

\* node.go: AddPeer, RemovePeer: Lock granted, n.Peers[peer.ID] = peer or
\* delete(n.Peers, peerID), Unlock
RegistryWrite ==
    /\ node.mu.writer # << >>
    /\ node.mu.readers = 0
    /\ node' = [node EXCEPT
                  !.Peers = IF node.mu.writer[1] = "AddPeer"
                            THEN [x \in DOMAIN @ \cup {node.mu.writer[2]} |->
                                     IF x = node.mu.writer[2] THEN NewPeer ELSE @[x]]
                            ELSE [x \in DOMAIN @ \ {node.mu.writer[2]} |-> @[x]],
                  !.mu.writer = << >>]
    /\ UNCHANGED <<blocks, state, pending, txPool, validators, localValidator, phase, now,
                   prod, ab, ret, pos, call, mu>>

\* A node that is no validator, whose peers are added, connected and removed by one
\* task while the dispatcher accepts transactions new to the node and broadcasts them.
NextRegistry ==
    \/ MainPlain
    \/ Start
    \/ \E op \in {"AddPeer", "RemovePeer"}, id \in PeerIDs : RegistryLock(op, id)
    \/ RegistryWrite
    \/ Connect("p1")
    \/ \E tx \in {t \in WellSignedTxs : t.ID \notin DOMAIN txPool} :
          DispatcherReceive(Message("transaction", <<tx>>, "p2"))
    \/ DispatcherHandleTransaction
    \/ BroadcastRLock
    \/ \E id \in PeerIDs : BroadcastSend(id)
    \/ BroadcastRUnlock

SpecRegistry == Init /\ [][NextRegistry]_vars

\* ------------------------------------------------------------ node: the peers' channels

\* Messages the peers send to a node that is no validator: pings of p1, requests for
\* the blocks of p2, one transaction.
PeerMessageInputs ==
    { Message("ping", << >>, "p1"), Message("get_blocks", << >>, "p2"),
      Message("transaction", <<SmallTx>>, "p1") }

NextPeer ==
    \/ MainPlain
    \/ Start
    \/ \E id \in PeerIDs \ DOMAIN node.Peers : AddPeer(id)
    \/ Connect("p1")
    \/ \E msg \in PeerMessageInputs : DispatcherReceive(msg)
    \/ DispatcherReply
    \/ DispatcherHandleTransaction
    \/ DispatcherReturn

SpecPeer == Init /\ [][NextPeer]_vars

\* ------------------------------------------------------------ node: Blockchain.mu as built

\* The goroutines of the node.
Goroutines == {"dispatcher", "producer"}

\* Goroutine g is at a call that acquires Blockchain.mu next: the producer at
\* GetLatestBlock of tryProduceBlock, at the Lock of CreateBlock, or inside CreateBlock
\* at GetLatestBlock; the dispatcher at GetLatestBlock of handleBlock, at the Lock of
\* AddTransaction, or inside AddBlock at GetLatestBlock.
AtAcquire(g) ==
    IF g = "producer"
    THEN node.producer = "running" /\ prod.pc \in {"idle", "selected", "locked"}
    ELSE \/ node.dispatcher.pc = "handling" /\ ret = None
            /\ node.dispatcher.msg.Type \in {"block", "transaction"}
         \/ node.dispatcher.pc = "AddBlock"

\* sync.RWMutex: Lock and RLock while a goroutine holds the lock exclusively: the
\* caller waits for the Unlock. blockchain.go: CreateBlock, and AddBlock through
\* validateBlock, call GetLatestBlock, which calls RLock, between their own Lock and
\* Unlock: the holder waits for itself, the Unlock is never reached, and what follows
\* GetLatestBlock in the two functions is never executed.
WaitForMu(g) ==
    /\ g \notin mu.blocked
    /\ AtAcquire(g)
    /\ mu.writer # ""
    /\ mu' = [mu EXCEPT !.blocked = @ \cup {g}]
    /\ UNCHANGED <<blocks, state, pending, txPool, validators, localValidator, phase, now,
                   prod, ab, ret, pos, call, node>>

\* node.go: a tick, tryProduceBlock up to its decision, GetLatestBlock's RLock granted
LockedTick(nanos, order) ==
    /\ "producer" \notin mu.blocked
    /\ mu.writer = ""
    /\ ProducerTick(nanos, order)

\* blockchain.go: CreateBlock: bc.mu.Lock() granted
CreateBlockLock ==
    /\ "producer" \notin mu.blocked
    /\ prod.pc = "selected"
    /\ mu.writer = ""
    /\ mu' = [mu EXCEPT !.writer = "producer"]
    /\ prod' = [prod EXCEPT !.pc = "locked"]
    /\ UNCHANGED <<blocks, state, pending, txPool, validators, localValidator, phase, now,
                   ab, ret, pos, call, node>>

\* node.go: handleBlock: GetLatestBlock's RLock granted, ValidateBlock, and for a block
\* it accepts AddBlock: bc.mu.Lock() granted
HandleBlockLock ==
    /\ "dispatcher" \notin mu.blocked
    /\ node.dispatcher.pc = "handling"
    /\ node.dispatcher.msg.Type = "block"
    /\ mu.writer = ""
    /\ IF ValidateBlock(validators, pos.MinStake, node.dispatcher.msg.Data[1],
                        GetLatestBlock, now) = "ok"
       THEN /\ mu' = [mu EXCEPT !.writer = "dispatcher"]
            /\ node' = [node EXCEPT !.dispatcher.pc = "AddBlock"]
       ELSE /\ mu' = mu
            /\ node' = [node EXCEPT !.dispatcher = [pc |-> "idle", msg |-> NoMessage]]
    /\ UNCHANGED <<blocks, state, pending, txPool, validators, localValidator, phase, now,
                   prod, ab, ret, pos, call>>

\* node.go: handleTransaction: AddTransaction, its Lock granted
HandleTransactionLock ==
    /\ "dispatcher" \notin mu.blocked
    /\ mu.writer = ""
    /\ DispatcherHandleTransaction

\* node.go: Stop: close(stopChan)
Stop ==
    /\ node.dispatcher.pc # "none"
    /\ node.stopChan = "open"
    /\ node' = [node EXCEPT !.stopChan = "closed"]
    /\ UNCHANGED <<blocks, state, pending, txPool, validators, localValidator, phase, now,
                   prod, ab, ret, pos, call, mu>>

\* node.go: processMessages: the select takes the closed stopChan
DispatcherExit ==
    /\ node.dispatcher.pc = "idle"
    /\ node.stopChan = "closed"
    /\ node' = [node EXCEPT !.dispatcher.pc = "exited"]
    /\ UNCHANGED <<blocks, state, pending, txPool, validators, localValidator, phase, now,
                   prod, ab, ret, pos, call, mu>>

\* node.go: produceBlocks: the select takes the closed stopChan
ProducerExit ==
    /\ node.producer = "running"
    /\ prod.pc = "idle"
    /\ "producer" \notin mu.blocked
    /\ node.stopChan = "closed"
    /\ node' = [node EXCEPT !.producer = "exited"]
    /\ UNCHANGED <<blocks, state, pending, txPool, validators, localValidator, phase, now,
                   prod, ab, ret, pos, call, mu>>

\* Messages peers send to the node whose only validator is alice: a block alice signed
\* elsewhere, a block of the unregistered pete, a transaction.
LockMessageInputs ==
    { Message("block", <<PeerBlock("alice", <<Coinbase("alice", BlockReward)>>, << >>, now)>>, "p1"),
      Message("block", <<HonestBlock(<< >>, now)>>, "p1"),
      Message("transaction", <<SmallTx>>, "p1") }

NextLock ==
    \/ MainValidator("alice")
    \/ Start
    \/ Tick
    \/ \E nanos \in {0, 1}, order \in Orders(DOMAIN validators) : LockedTick(nanos, order)
    \/ CreateBlockLock
    \/ \E msg \in LockMessageInputs : DispatcherReceive(msg)
    \/ HandleBlockLock
    \/ HandleTransactionLock
    \/ DispatcherReturn
    \/ \E g \in Goroutines : WaitForMu(g)
    \/ Stop
    \/ DispatcherExit
    \/ ProducerExit

SpecLock == Init /\ [][NextLock]_vars

\* ------------------------------------------------------------ properties

Last(seq) == seq[Len(seq)]

\* The State obtained by applying the blocks of chain in order to st.
RECURSIVE ReplayFrom(_, _)
ReplayFrom(st, chain) ==
    IF chain = << >> THEN st
    ELSE ReplayFrom(ApplyBlock(st, Head(chain)).st, Tail(chain))
Replay(chain) == ReplayFrom(NewState, chain)

\* Sums over the non-coinbase transactions of txs, as mathematical integers: what
\* address a sends (amount + fee), what it receives (amount), and the fees.
RECURSIVE Debits(_, _)
Debits(txs, a) ==
    IF txs = << >> THEN 0
    ELSE (IF ~IsCoinbase(Head(txs)) /\ Head(txs).From = a
          THEN Head(txs).Amount + Head(txs).Fee ELSE 0) + Debits(Tail(txs), a)
RECURSIVE Credits(_, _)
Credits(txs, a) ==
    IF txs = << >> THEN 0
    ELSE (IF ~IsCoinbase(Head(txs)) /\ Head(txs).To = a
          THEN Head(txs).Amount ELSE 0) + Credits(Tail(txs), a)
RECURSIVE FeeSum(_)
FeeSum(txs) ==
    IF txs = << >> THEN 0
    ELSE (IF IsCoinbase(Head(txs)) THEN 0 ELSE Head(txs).Fee) + FeeSum(Tail(txs))

\* C1: every committed block at position i >= 1 has index i, the hash of the block
\* before it as prev_hash, and the hash recomputed from its fields as hash; IsValid
\* is true of the chain in every state.
C1_ChainValid ==
    /\ \A i \in 2..Len(blocks) :
          /\ blocks[i].Index = i - 1
          /\ blocks[i].PrevHash = blocks[i - 1].Hash
          /\ blocks[i].Hash = calculateHash(blocks[i])
    /\ IsValid(blocks)

\* A chain of three blocks, one committed for a peer and one for the producer.
C1_Witness ==
    /\ Len(blocks) = 3
    /\ BlockchainUnlocked
    /\ {blocks[2].Validator, blocks[3].Validator} = {"pete", localValidator}

\* C2: a step in which AddBlock returns an error leaves the chain, the live State,
\* pending and txPool as they were.
C2_AddBlockErrorChangesNothing ==
    [][(ret'.op = "AddBlock" /\ ret'.err # "ok")
          => /\ ret'.err \in {"invalid block", "failed to apply block"}
             /\ UNCHANGED ledgerVars]_vars

\* AddBlock has refused a block one of whose transactions could not be applied, with
\* transactions waiting in the mempool.
C2_Witness ==
    /\ ret = Returns("AddBlock", "failed to apply block")
    /\ pending # << >>
    /\ Len(blocks) > 1

\* C3: when AddBlock has just returned OK for block b, pending is empty and no
\* transaction id of b is a key of txPool.
C3_CommitEmptiesPending ==
    ret = Returns("AddBlock", "ok")
        => /\ pending = << >>
           /\ IDs(Last(blocks).Transactions) \cap DOMAIN txPool = {}

\* AddBlock has returned OK for a block carrying SmallTx, and the pool still holds
\* another transaction.
C3_Witness ==
    /\ ret = Returns("AddBlock", "ok")
    /\ SmallTx.ID \in IDs(Last(blocks).Transactions)
    /\ DOMAIN txPool # {}

\* C4: whenever no AddBlock is in progress, txPool and pending hold the same set of
\* transactions.
C4_PoolMatchesPending ==
    BlockchainUnlocked => DOMAIN txPool = IDs(pending)

\* C5: no query that takes no lock (handleGetBlocks, getBlocks, handleBalance,
\* getPendingTransactions) returns while the new block is already appended and the
\* live State, txPool or pending do not yet reflect it.
C5_NoPartialCommitObserved ==
    ret.op \in {"handleGetBlocks", "handleBalance", "getPendingTransactions"}
        => ab.pc \notin {"appended", "swapped", "unpooled"}

\* C6: a step in which AddTransaction returns OK appends one transaction tx to pending
\* and stores it in txPool, and tx verifies, tx.ID was not in txPool and the sender's
\* balance was at least the sum amount + fee the code computes; a step in which it
\* returns an error leaves pending, txPool and State unchanged.
C6_AddTransactionContract ==
    [][ret'.op = "AddTransaction"
          => IF ret'.err = "ok"
             THEN /\ Len(pending') = Len(pending) + 1
                  /\ LET tx == pending'[Len(pending')]
                     IN  /\ pending' = Append(pending, tx)
                         /\ DOMAIN txPool' = DOMAIN txPool \cup {tx.ID}
                         /\ txPool'[tx.ID] = tx
                         /\ \A id \in DOMAIN txPool : txPool'[id] = txPool[id]
                         /\ TxVerify(tx) = "ok"
                         /\ tx.ID \notin DOMAIN txPool
                         /\ GetBalance(state, tx.From) >= TotalRequired(tx)
                  /\ UNCHANGED <<blocks, state>>
             ELSE /\ ret'.err \in {"invalid transaction", "transaction already exists",
                                   "insufficient balance"}
                  /\ UNCHANGED ledgerVars]_vars

\* AddTransaction has refused a transaction for insufficient balance while another
\* transaction is pending.
C6_Witness ==
    /\ ret = Returns("AddTransaction", "insufficient balance")
    /\ pending # << >>

\* C7: when AddTransaction has just returned OK, the sender's balance covers amount +
\* fee of all the sender's pending transactions together.
C7_NoDoubleSpendAdmitted ==
    ret = Returns("AddTransaction", "ok")
        => Debits(pending, Last(pending).From) <= GetBalance(state, Last(pending).From)

\* C8: whenever no AddBlock is in progress, for every address the balance plus the
\* stake of the live State equals the balance obtained by replaying the chain from an
\* empty State.
C8_StateIsReplay ==
    (phase = "running" /\ BlockchainUnlocked)
        => \A a \in Addresses :
              GetBalance(state, a) + GetStake(state, a) = GetBalance(Replay(blocks), a)

\* C9: when AddTransaction has just returned OK for tx, amount + fee of tx as a
\* mathematical integer does not exceed the sender's balance.
C9_NoOverflowAdmitted ==
    ret = Returns("AddTransaction", "ok")
        => Last(pending).Amount + Last(pending).Fee
              <= GetBalance(state, Last(pending).From)

\* C10: the step that commits to the live State a block b the producer created for
\* validator V debits every sender of a non-coinbase transaction by amount + fee,
\* credits every recipient by amount, and credits V by CalculateReward(b), which is
\* BlockReward plus the fees of the non-coinbase transactions; stakes stay as they are.
C10_CommitPaysReward ==
    [][(ab.pc = "appended" /\ ab'.pc = "swapped" /\ ab.by = "producer")
          => LET b == ab.block
             IN  /\ b.Validator = localValidator
                 /\ CalculateReward(b) = BlockReward + FeeSum(b.Transactions)
                 /\ \A a \in Addresses :
                       /\ GetBalance(state', a)
                             = GetBalance(state, a) - Debits(b.Transactions, a)
                               + Credits(b.Transactions, a)
                               + (IF a = b.Validator THEN CalculateReward(b) ELSE 0)
                       /\ GetStake(state', a) = GetStake(state, a)]_vars

\* The producer's block carrying the transfer of 100 with fee 1 from alice, the
\* validator, to bob has been committed to the live State: alice owns 999,950 (stake
\* included) and bob 100.
C10_Witness ==
    /\ ab.pc = "swapped"
    /\ ab.by = "producer"
    /\ ab.block.Validator = "alice"
    /\ ab.block.Transactions = <<Coinbase("alice", BlockReward), SmallTx>>
    /\ GetBalance(state, "alice") + GetStake(state, "alice") = 999950
    /\ GetBalance(state, "bob") = 100

\* C11: two successive calls of SelectValidator with the same arguments on the same
\* registry return the same result, whatever the order in which the registry is
\* enumerated.
C11_SelectionDeterministic ==
    [][(call.fn = "SelectValidator" /\ call'.fn = "SelectValidator"
        /\ call'.args = call.args /\ call'.registry = call.registry)
          => (call'.err = call.err /\ call'.address = call.address)]_vars

\* C12: SelectValidator on a non-empty registry in which all stakes are zero, or all
\* are below the configured minimum, returns the error "no eligible validators".
C12_NoEligibleValidators ==
    (/\ call.fn = "SelectValidator"
     /\ DOMAIN call.registry # {}
     /\ \/ \A a \in DOMAIN call.registry : call.registry[a].Stake = 0
        \/ \A a \in DOMAIN call.registry : call.registry[a].Stake < pos.MinStake)
        => call.err = "no eligible validators"

\* C13: a call of ValidateBlock(b, prev) returns ok exactly when b's validator is
\* registered with at least the minimum stake, b verifies against that validator's
\* public key, b's timestamp is at most now + BlockTime and, prev being present, after
\* prev's timestamp; whatever it returns, the registry and the chain are unchanged.
C13_ValidateBlockContract ==
    [][(call' # call /\ call'.fn = "ValidateBlock") =>
        LET b == call'.args[1]
            prev == call'.args[2]
        IN  /\ call'.err = "ok" <=>
                 /\ b.Validator \in DOMAIN validators
                 /\ validators[b.Validator].Stake >= pos.MinStake
                 /\ BlockVerify(b, validators[b.Validator].PublicKey) = "ok"
                 /\ b.Timestamp <= now + BlockTime
                 /\ prev # NoBlock => b.Timestamp > prev.Timestamp
            /\ validators' = validators
            /\ ledgerVars' = ledgerVars]_vars

\* C13: ValidateBlock has accepted a block against a previous block, and has refused one.
C13_Witness ==
    /\ call.fn = "ValidateBlock"
    /\ call.args[2] # NoBlock
    /\ call.err = "ok"

\* C16: every step leaves the chain as it is or appends one block whose index is the
\* former height: no block is removed or replaced, and the height never decreases.
C16_ChainAppendOnly ==
    [][\/ blocks' = blocks
       \/ /\ Len(blocks') = Len(blocks) + 1
          /\ SubSeq(blocks', 1, Len(blocks)) = blocks
          /\ blocks'[Len(blocks')].Index = Len(blocks)]_vars

\* C16: two blocks were committed after genesis, in index order.
C16_Witness ==
    /\ Len(blocks) >= 3
    /\ blocks[2].Index = 1
    /\ blocks[3].Index = 2

\* C17: a transaction admitted is appended after those already pending, and pending
\* changes otherwise only by being emptied; the block CreateBlock returns for the local
\* validator is unsigned, has the index after the latest block's and its hash as
\* previous hash, and carries the coinbase (to the validator, BlockReward, fee 0,
\* timestamp 0) followed by the pending transactions in their order; CreateBlock changes
\* neither ledger nor registry.
C17_CreateBlockContract ==
    [][/\ pending' # pending =>
             \/ pending' = << >>
             \/ /\ Len(pending') = Len(pending) + 1
                /\ SubSeq(pending', 1, Len(pending)) = pending
       /\ (prod.pc = "selected" /\ prod'.pc = "created") =>
             LET b == prod'.block
             IN  /\ b.Signature = ""
                 /\ b.Index = Last(blocks).Index + 1
                 /\ b.PrevHash = Last(blocks).Hash
                 /\ b.Validator = localValidator
                 /\ Len(b.Transactions) = Len(pending) + 1
                 /\ b.Transactions[1].From = ""
                 /\ b.Transactions[1].To = localValidator
                 /\ b.Transactions[1].Amount = BlockReward
                 /\ b.Transactions[1].Fee = 0
                 /\ b.Transactions[1].Timestamp = 0
                 /\ SubSeq(b.Transactions, 2, Len(b.Transactions)) = pending
                 /\ ledgerVars' = ledgerVars
                 /\ validators' = validators]_vars

\* C17: CreateBlock has returned a block carrying two pending transactions.
C17_Witness ==
    /\ prod.pc = "created"
    /\ Len(pending) = 2
    /\ Len(prod.block.Transactions) = 3

\* C14: a producer tick goes on to create a block only when ShouldCreateBlock holds
\* for the latest block's timestamp and SelectValidator can return the local validator
\* for the latest hash and the current second; until its AddBlock call the tick changes
\* neither ledger nor peer queues; the block the producer commits is the one it created
\* and signed, and the producer broadcasts it only after AddBlock returned ok.
C14_ProducerTickContract ==
    [][/\ (prod.pc = "idle" /\ prod'.pc # "idle") =>
             /\ prod'.pc = "selected"
             /\ \E nanos \in {0, 1} : ShouldCreateBlock(Last(blocks).Timestamp, now, nanos)
             /\ \E order \in Orders(DOMAIN validators) :
                   LET sel == SelectValidator(
                                  [i \in 1..Len(order) |-> validators[order[i]]],
                                  pos.MinStake, generateSeed(Last(blocks).Hash, now))
                   IN  sel.err = "ok" /\ sel.address = localValidator
       /\ (prod' # prod /\ prod.pc \in {"idle", "selected", "created"}) =>
             (ledgerVars' = ledgerVars /\ node' = node)
       /\ (node'.Peers # node.Peers /\ node'.dispatcher = node.dispatcher) =>
             prod.pc = "returned"
       /\ (blocks' # blocks /\ ab.by = "producer") =>
             (prod.pc = "adding" /\ ab.block = prod.block
                /\ prod.block.Validator = localValidator)
       /\ (prod.pc = "returned" /\ node'.Peers # node.Peers) =>
             IF ret = Returns("AddBlock", "ok")
             THEN /\ prod.block = Last(blocks)
                  /\ node'.Peers = Broadcast(node.Peers,
                                             Message("block", <<prod.block>>, "node"))
             ELSE FALSE]_vars

\* C14: the connected peer's queue holds a block the local validator produced.
C14_Witness ==
    \E i \in 1..Len(node.Peers["p1"].messageChan) :
        LET m == node.Peers["p1"].messageChan[i]
        IN  m.Type = "block" /\ m.Data[1].Validator = localValidator

\* C15: the dispatcher changes the peer queues only by broadcasting the message it
\* is handling after the call returned ok: a block that is now the latest block and
\* verifies against its registered validator, a transaction that is now the last
\* pending one; a call that returns an error to the dispatcher changed neither ledger
\* nor peer queues; and handling the return, the dispatcher is back at its select.
C15_DispatcherContract ==
    [][/\ (node.dispatcher.pc = "handling" /\ node'.dispatcher # node.dispatcher
             /\ node'.Peers # node.Peers) =>
             LET m == node.dispatcher.msg
             IN  /\ ret.err = "ok"
                 /\ node'.Peers = Broadcast(node.Peers, Message(m.Type, m.Data, "node"))
                 /\ m.Type = "block" =>
                       /\ ret.op = "AddBlock"
                       /\ m.Data[1] = Last(blocks)
                       /\ m.Data[1].Validator \in DOMAIN validators
                       /\ BlockVerify(m.Data[1],
                                      validators[m.Data[1].Validator].PublicKey) = "ok"
                 /\ m.Type = "transaction" =>
                       /\ ret.op = "AddTransaction"
                       /\ pending # << >>
                       /\ m.Data[1] = Last(pending)
       /\ (node.dispatcher.pc = "handling" /\ prod'.pc # "returned"
             /\ ret = None /\ ret' # None /\ ret'.err # "ok") =>
             (ledgerVars' = ledgerVars /\ node' = node)
       /\ (node.dispatcher.pc = "handling" /\ prod.pc # "returned"
             /\ ret # None /\ ret' = None) =>
             /\ node'.dispatcher = [pc |-> "idle", msg |-> NoMessage]
             /\ ledgerVars' = ledgerVars
             /\ ret.err # "ok" => node'.Peers = node.Peers]_vars

\* C15: the connected peer's queue holds a block and a transaction the dispatcher
\* passed on.
C15_Witness ==
    /\ \E i \in 1..Len(node.Peers["p1"].messageChan) :
          LET m == node.Peers["p1"].messageChan[i]
          IN  m.Type = "block" /\ m.Data[1].Validator = "pete"
    /\ \E i \in 1..Len(node.Peers["p1"].messageChan) :
          node.Peers["p1"].messageChan[i].Type = "transaction"

\* The peer the dispatcher's reply goes to, or "" when the message in hand asks for none.
ReplyTo ==
    IF node.dispatcher.pc = "handling" /\ node.dispatcher.msg.Type \in {"ping", "get_blocks"}
    THEN node.dispatcher.msg.From ELSE ""

StuckForever(g) ==
    /\ g \in mu.blocked
    /\ mu.writer \in mu.blocked

\* C18: with alice the only registered validator and the local one, a producer tick at
\* which ShouldCreateBlock holds goes on to commit its block: the producer is never
\* left waiting forever inside the tick, the chain still at its genesis block.
C18_TickCommitsBlock ==
    ~(/\ DOMAIN validators = {"alice"}
      /\ localValidator = "alice"
      /\ node.dispatcher.msg = NoMessage
      /\ prod.pc = "locked"
      /\ StuckForever("producer")
      /\ Len(blocks) = 1)

\* C19: once Stop has closed stopChan, the dispatcher and the producer can still reach
\* their select and exit: neither is left waiting forever inside a handler or a tick.
C19_StoppedTasksExit ==
    node.stopChan = "closed" => \A g \in Goroutines : ~StuckForever(g)

\* ------------------------------------------------------------ staking (C21, C22)

\* C21: AddStake of more than the balance of the address (one unit more, or far more)
\* fails with "insufficient balance to stake", RemoveStake of more than its stake fails
\* with "insufficient stake", and a call that fails leaves both maps as they were.
C21_FailedStakeChangesNothing ==
    [][/\ \A a \in {"alice", "bob"} :
            /\ \A n \in {GetBalance(state', a) + 1, GetBalance(state', a) + 400000} :
                  StateAddStake(state', a, n)
                     = [err |-> "insufficient balance to stake", st |-> state']
            /\ \A n \in {GetStake(state', a) + 1, GetStake(state', a) + 400000} :
                  StateRemoveStake(state', a, n)
                     = [err |-> "insufficient stake", st |-> state']
       /\ (ret = None /\ ret'.op = "AddStake" /\ ret'.err # "ok")
             => state' = state /\ ret'.err = "insufficient balance to stake"
       /\ (ret = None /\ ret'.op = "RemoveStake" /\ ret'.err # "ok")
             => state' = state /\ ret'.err = "insufficient stake"]_vars

\* A stake request one unit above a non-zero balance has been refused.
C21_Witness ==
    /\ ret = Returns("AddStake", "insufficient balance to stake")
    /\ GetBalance(state, "alice") > 0
    /\ GetStake(state, "alice") > MinStake

\* C22: a successful AddStake moves one amount n, in a single step, from the balance of
\* the address to its stake: the sum of the two and every other address keep their
\* values, and RemoveStake of the same n on the result gives back the State before.
C22_StakeMovesExactly ==
    [][(ret = None /\ ret' = Returns("AddStake", "ok"))
          => \E a \in Addresses :
                LET n == GetBalance(state, a) - GetBalance(state', a)
                IN  /\ n >= 0
                    /\ GetStake(state', a) = GetStake(state, a) + n
                    /\ GetBalance(state', a) + GetStake(state', a)
                          = GetBalance(state, a) + GetStake(state, a)
                    /\ \A b \in Addresses \ {a} :
                          /\ GetBalance(state', b) = GetBalance(state, b)
                          /\ GetStake(state', b) = GetStake(state, b)
                    /\ StateRemoveStake(state', a, n) = [err |-> "ok", st |-> state]]_vars

\* A stake request of 400000 has been granted to the validator after a commit.
C22_Witness ==
    /\ ret = Returns("AddStake", "ok")
    /\ GetStake(state, "alice") = MinStake + 400000
    /\ Len(blocks) > 1

\* ------------------------------------------------------------ State.Clone (C23)

C23_OriginalChangedUnderClone ==
    ab.pc = "applied" /\ ab.temp.Stakes # state.Stakes

\* ------------------------------------------------------------ RegisterValidator (C24)

\* C24: RegisterValidator refuses a validator whose stake is below MinStake or whose
\* address is registered already, and a refusal leaves the validator set as it was;
\* any other validator is added under its address, the others staying as they were.
C24_RegisterContract ==
    [][/\ \A v \in SelectValidatorInputs :
            LET r == Register(validators, v)
            IN  IF v.Stake < pos.MinStake \/ v.Address \in DOMAIN validators
                THEN r.err # "ok" /\ r.reg = validators
                ELSE /\ r.err = "ok"
                     /\ DOMAIN r.reg = DOMAIN validators \cup {v.Address}
                     /\ r.reg[v.Address] = v
                     /\ \A a \in DOMAIN validators : r.reg[a] = validators[a]
       /\ (ret = None /\ ret'.op = "RegisterValidator")
             => IF ret'.err = "ok"
                THEN \E v \in SelectValidatorInputs :
                        /\ v.Stake >= pos.MinStake
                        /\ v.Address \notin DOMAIN validators
                        /\ validators' = Register(validators, v).reg
                        /\ validators'[v.Address] = v
                ELSE validators' = validators]_vars

\* A second registration under a registered address has been refused, the validator
\* registered first being still in the set with its own stake.
C24_Witness ==
    /\ ret = Returns("RegisterValidator", "validator already exists")
    /\ pos.MinStake = 0
    /\ DOMAIN validators = {"alice", "bob"}
    /\ validators["alice"].Stake = 0

\* ------------------------------------------------------------ coinbase submissions (C25)

\* Transactions with an empty From: no signature and no key, malformed ones, and the
\* key and signature of a wallet; for an amount the empty address could pay, and more.
CoinbaseSubmissions ==
    { [[Coinbase("bob", amount) EXCEPT !.PublicKey = pk] EXCEPT !.Signature = sig] :
         amount \in {0, 100},
         pk \in {"", "zz", PublicKeyOf("bob")},
         sig \in {"", MalformedSignature} \cup
                 { Sign(PrivateKeyOf("bob"),
                        dataToSign([Coinbase("bob", a) EXCEPT !.PublicKey = k])) :
                      a \in {0, 100}, k \in {"", PublicKeyOf("bob")} } }

\* C25: AddTransaction refuses every transaction with an empty From, whatever its
\* signature and public key, so neither PendingTxs nor txPool ever holds a coinbase.
C25_NoCoinbaseAdmitted ==
    /\ \A c \in CoinbaseSubmissions :
          TxVerify(c) # "ok" /\ AddTransactionCheck(c) = "invalid transaction"
    /\ \A i \in 1..Len(pending) : ~IsCoinbase(pending[i])
    /\ \A id \in DOMAIN txPool : ~IsCoinbase(txPool[id])

\* A submission has been refused by Verify while the mempool holds a transfer, after
\* a block (with its coinbase) was committed.
C25_Witness ==
    /\ ret = Returns("AddTransaction", "invalid transaction")
    /\ Len(pending) = 1
    /\ Len(blocks) > 1

\* ------------------------------------------------------------ NewBlockchain (C26)

\* C26: NewBlockchain(address, supply) yields a chain of height 1 whose block 0 has
\* index 0, timestamp 0, previous hash "0", validator "genesis", signature "genesis"
\* and one transaction, a coinbase of the supply to the address; the State holds the
\* supply for the address and 0 in every other balance and every stake; PendingTxs and
\* txPool are empty. Block 0 stays what it was for as long as the node runs.
C26_GenesisConstruction ==
    \E a \in {"alice", "bob"}, supply \in {0, InitialSupply} :
       /\ blocks[1].Index = 0
       /\ blocks[1].Timestamp = 0
       /\ blocks[1].PrevHash = "0"
       /\ blocks[1].Validator = "genesis"
       /\ blocks[1].Signature = "genesis"
       /\ blocks[1].Hash = calculateHash(blocks[1])
       /\ Len(blocks[1].Transactions) = 1
       /\ LET tx == blocks[1].Transactions[1]
          IN  /\ IsCoinbase(tx) /\ tx.To = a /\ tx.Amount = supply /\ tx.Fee = 0
              /\ tx.Timestamp = 0 /\ tx.Signature = "" /\ tx.PublicKey = ""
              /\ tx.ID = calculateID(tx)
       /\ phase = "boot"
             => /\ Len(blocks) = 1
                /\ \A x \in Addresses :
                      /\ GetBalance(state, x) = (IF x = a THEN supply ELSE 0)
                      /\ GetStake(state, x) = 0
                /\ pending = << >>
                /\ DOMAIN txPool = {}

\* The chain as NewBlockchain("bob", InitialSupply) leaves it.
C26_Witness ==
    /\ phase = "boot"
    /\ Len(blocks) = 1
    /\ GetBalance(state, "bob") = InitialSupply
    /\ blocks[1].Transactions[1].To = "bob"

\* ------------------------------------------------------------ ShouldCreateBlock (C27)

\* C27: ShouldCreateBlock(lastBlockTime) is true exactly when the clock has reached
\* lastBlockTime + BlockTime, the instant lastBlockTime + BlockTime itself (whole
\* second, no nanoseconds) included.
C27_ShouldCreateAtBoundary ==
    \A nanos \in {0, 1} :
       ShouldCreateBlock(GetLatestBlock.Timestamp, now, nanos)
          <=> now >= GetLatestBlock.Timestamp + BlockTime

\* ------------------------------------------------------------ termination of chain calls (C28)

\* C28: AddBlock and CreateBlock always return: no goroutine inside one of them (the
\* holder of Blockchain.mu) waits for Blockchain.mu, which only it could release.
C28_ChainCallsReturn ==
    \A g \in Goroutines : mu.writer = g => g \notin mu.blocked

\* ------------------------------------------------------------ production goes on (C29)

\* C29: on a node whose only validator is the local one, whatever transactions
\* AddTransaction has accepted and whatever stakes AddStake has granted, the block the
\* producer builds from the mempool can be applied, so that a tick commits it.
C29_ProducerBlockApplies ==
    (phase = "running" /\ localValidator # "" /\ ab.pc = "idle")
       => ApplyBlock(Clone(state), CreateBlock(localValidator)).err = "ok"

\* The State with every stake given back to its owner.
AllUnstaked(st) ==
    [Balances |-> [a \in Addresses |-> GetBalance(st, a) + GetStake(st, a)],
     Stakes |-> [a \in Addresses |-> 0]]

\* The producer's block cannot be applied even if every stake were given back: the
\* mempool holds transfers their sender cannot pay together; so does the block the
\* producer has in hand, if it has one, and no commit is under way.
Unpayable ==
    /\ phase = "running"
    /\ localValidator # ""
    /\ ab.pc = "idle"
    /\ ApplyTransactions(AllUnstaked(state),
                         <<Coinbase(localValidator, BlockReward)>> \o pending).err # "ok"
    /\ prod.block # NoBlock
          => ApplyTransactions(AllUnstaked(state), prod.block.Transactions).err # "ok"

\* Such a mempool is never emptied and no further block is committed: every attempt
\* fails in ApplyBlock and leaves PendingTxs as it is for the next one.
UnpayableForever ==
    [][Unpayable => (Unpayable' /\ blocks' = blocks /\ Len(pending') >= Len(pending))]_vars

\* The producer's block has been refused with such a mempool.
UnpayableReached ==
    Unpayable /\ ret = Returns("AddBlock", "failed to apply block")

\* ------------------------------------------------------------ stake moves and commits (C30)

\* C30: a stake move that AddStake or RemoveStake has granted is still in the live
\* State once a commit that was under way has completed: the step of AddBlock that
\* replaces the State by the clone keeps every stake the live State holds.
C30_StakeMoveSurvivesCommit ==
    [][(ab.pc = "appended" /\ ab'.pc = "swapped") => state'.Stakes = state.Stakes]_vars

\* ------------------------------------------------------------ who may produce (C31)

\* C31: every committed block after genesis names as validator an address that
\* SelectValidator yields for the hash of the block before it and the block's own
\* second (for some order in which the validator map is enumerated).
C31_CommittedByTheSelected ==
    \A i \in 2..Len(blocks) :
       \E order \in Orders(DOMAIN validators) :
          LET sel == SelectValidator([k \in 1..Len(order) |-> validators[order[k]]],
                                     pos.MinStake,
                                     generateSeed(blocks[i - 1].Hash, blocks[i].Timestamp))
          IN  sel.err = "ok" /\ sel.address = blocks[i].Validator

\* ------------------------------------------------------------ supply (C32)

\* Everything the accounts of a State hold, staked or not.
TotalSupply(st) ==
    LET total[S \in SUBSET Addresses] ==
           IF S = {} THEN 0
           ELSE LET a == CHOOSE x \in S : TRUE
                IN  GetBalance(st, a) + GetStake(st, a) + total[S \ {a}]
    IN  total[Addresses]

\* C32: every committed block after genesis has one coinbase, its first transaction,
\* of amount BlockReward, and once a commit is complete the accounts hold together the
\* initial supply plus BlockReward for every block after genesis.
C32_OneRewardPerBlock ==
    /\ \A i \in 2..Len(blocks) :
          LET txs == blocks[i].Transactions
          IN  /\ Len(txs) >= 1
              /\ IsCoinbase(txs[1])
              /\ txs[1].Amount = BlockReward
              /\ \A j \in 2..Len(txs) : ~IsCoinbase(txs[j])
    /\ BlockchainUnlocked
          => TotalSupply(state) = InitialSupply + BlockReward * (Len(blocks) - 1)

\* ------------------------------------------------------------ timestamps (C33)

\* C33: along the committed chain every block carries a timestamp later than that of
\* the block before it.
C33_TimestampsIncrease ==
    \A i \in 2..Len(blocks) : blocks[i].Timestamp > blocks[i - 1].Timestamp

\* ------------------------------------------------------------ gossip ends (C35)

\* C35: the node sends a given block to a peer at most once: a block of its chain that
\* it receives again is refused (by ValidateBlock or by AddBlock) and a refused block
\* is not broadcast.
C35_BroadcastAtMostOnce ==
    /\ LET q == node.Peers["p1"].messageChan
       IN  \A i, j \in 1..Len(q) :
              (q[i].Type = "block" /\ q[i].Data = q[j].Data) => i = j
    /\ (/\ node.dispatcher.pc = "handling"
        /\ node.dispatcher.msg.From = "p2"
        /\ ret.op \in {"ValidateBlock", "AddBlock"}
        /\ prod.pc # "returned")
          => ret.err # "ok"

\* The block the node committed and broadcast has come back from p2 and has been
\* refused; p1 was sent that block once.
C35_Witness ==
    /\ node.dispatcher.pc = "handling"
    /\ node.dispatcher.msg.From = "p2"
    /\ node.dispatcher.msg.Data = <<blocks[2]>>
    /\ ret.op \in {"ValidateBlock", "AddBlock"}
    /\ ret.err # "ok"
    /\ prod.pc # "returned"
    /\ \E i \in 1..Len(node.Peers["p1"].messageChan) :
          node.Peers["p1"].messageChan[i].Data = <<blocks[2]>>

\* ------------------------------------------------------------ inbound queue (C36)

\* C36: messageChan never holds more than 100 messages; a message delivered while it
\* holds fewer is put at its end and one delivered while it is full is dropped, the
\* deliverer going on in both cases; the dispatcher takes a message only when it has
\* finished with the one before, and always the oldest of the queue.
C36_InboundQueueContract ==
    [][/\ Len(node'.messageChan) <= MessageChanCap
       /\ node'.messageChan # node.messageChan
             => \/ /\ Len(node.messageChan) < MessageChanCap
                   /\ \E msg \in {Message("ping", << >>, "p1"),
                                  Message("get_blocks", << >>, "p2")} :
                         node'.messageChan = Append(node.messageChan, msg)
                   /\ node'.dispatcher = node.dispatcher
                \/ /\ node.messageChan # << >>
                   /\ node'.messageChan = Tail(node.messageChan)
                   /\ node.dispatcher.pc = "idle"
                   /\ node'.dispatcher = [pc |-> "handling", msg |-> Head(node.messageChan)]
       /\ node'.dispatcher.msg # node.dispatcher.msg
             => \/ node'.dispatcher.msg = NoMessage /\ node'.messageChan = node.messageChan
                \/ node'.messageChan = Tail(node.messageChan)]_vars

\* The queue is full, its last message being the request of p2, while the dispatcher
\* handles a ping.
C36_Witness ==
    /\ Len(node.messageChan) = MessageChanCap
    /\ node.messageChan[MessageChanCap].Type = "get_blocks"
    /\ node.dispatcher.pc = "handling"
    /\ node.dispatcher.msg.Type = "ping"

\* ------------------------------------------------------------ registry lock (C34)

\* C34: a broadcast and a concurrent AddPeer or RemovePeer both complete: the
\* broadcast is never waiting for Node.mu inside sendMessage, its own read hold kept,
\* while the Lock of AddPeer or RemovePeer is waiting for that read hold.
C34_RegistryCallsComplete ==
    ~(/\ node.dispatcher.pc = "broadcasting"
      /\ node.ranging # {}
      /\ node.mu.readers > 0
      /\ node.mu.writer # << >>)

====
